---- MODULE Spec2Model ----
(***************************************************************************)
(* ChoreQuest (choresOS) recurring-assignment scheduling engine and        *)
(* assignment lifecycle, as a state machine over the relational store.     *)
(*                                                                         *)
(* Every request handler and the daily reset pass run as one transaction   *)
(* and are modelled as one atomic action.  A handler that raises before    *)
(* its commit leaves the store unchanged.                                  *)
(*                                                                         *)
(* Dates are day numbers; day 0 is a Monday, so weekday(d) = d % 7 with    *)
(* 0 = Monday as in Python's date.weekday().  Datetimes are counted in     *)
(* slots of 1/TodSlots day: Now = today * TodSlots + tod.                  *)
(***************************************************************************)
EXTENDS Integers, Sequences, FiniteSets, TLC

\* ------------------------------------------------------------------ bounds
MaxDay == 1
MaxOps == 4
SchedDays == 1
SchedOps == 4
RerunOps == 2
LifeDays == 1
LifeOps == 6
AwardDays == 3
OnceDays == 1
RotDays == 1
RotateDays == 1
RaceDays == 1
ProofDays == 1
CountDays == 7
CountSpan == 17
SoundDays == 8
SoundOps == 3
FiresAnchors == 20
FiresSpan == 34
FiringDays == 8
FiringOps == 1
RoundDays == 3
RoundOps == 2
DueDays == 8
DueOps == 1
HistoryDays == 1
HistoryOps == 4
LoopDays == 2
LoopOps == 2
RejectDays == 1
RejectOps == 5
ProofOps == 4
RaceOps == 4
RotateOps == 4
RotSpan == 9
OnceOps == 5
AwardOps == 6
MaxWeek == 1
TodSlots == 2

\* ------------------------------------------------------- program constants
WeekLen == 7
WeeklyThreshold == 7
FortnightlyThreshold == 14
MonthlyThreshold == 30
DailyThreshold == 1

Users == {1, 2}
Chores == {1}
Parent == 9
NoDate == -1
NoUser == 0

Recurrences == {"once", "daily", "weekly", "fortnightly", "custom"}
Cadences == {"daily", "weekly", "fortnightly", "monthly"}
Statuses == {"pending", "completed", "verified", "skipped"}
MonWedFri == {0, 2, 4}
AwardPoints == {20, 25}
AwardEvents == {<<>>, <<125>>, <<125, 125>>, <<116>>}

VARIABLES
    today,        \* date.today()
    tod,          \* time of day, in slots
    ticked,       \* the daily reset pass has run on this date
    last,         \* history: the operation that ran last on this date
    ops,          \* requests served so far (bounds the run)
    chores,       \* chores table: chore id -> row
    rules,        \* chore_assignment_rules: chore id -> user id -> row
    rotation,     \* chore_rotations: chore id -> row
    exclusions,   \* chore_exclusions: set of <<chore, user, date>>
    assignments,  \* chore_assignments: set of rows
    nextId,       \* next autoincrement id of chore_assignments
    users,        \* users table: user id -> points and streak columns
    ledger,       \* point_transactions, in insertion order
    trades,       \* trade_proposed notifications: set of [to, ref]
    events,       \* multipliers (in hundredths) of the seasonal events active now
    saga,         \* history: the complete -> verify -> uncomplete run being followed
    removed,      \* history: the slots of recurring chores a user removed
    session,      \* a second database session with a projection in flight
    loop          \* the background loop of daily_reset_task

vars == <<today, tod, ticked, last, ops, chores, rules, rotation, exclusions,
          assignments, nextId, users, ledger, trades, events, saga, removed,
          session, loop>>

\* ------------------------------------------------------------ row shapes
NoChore == [exists |-> FALSE, is_active |-> FALSE, recurrence |-> "once",
            custom_days |-> {}, created_at |-> 0, points |-> 0,
            requires_photo |-> FALSE]

\* The background loop between two passes.  History: failed_on is the date
\* of the last pass that raised.
Sleeping == [alive |-> TRUE, failed_on |-> NoDate]

NoSession == [open |-> FALSE, week_start |-> 0, pending |-> {}]

NoRule == [exists |-> FALSE, is_active |-> FALSE, recurrence |-> "once",
           custom_days |-> {}, requires_photo |-> FALSE]

NoRotation == [exists |-> FALSE, kid_ids |-> <<>>, cadence |-> "daily",
               current_index |-> 0, last_rotated |-> NoDate]

NoSaga == [stage |-> "none", id |-> 0, user |-> NoUser, bal0 |-> 0,
           life0 |-> 0, prior |-> 0, awarded |-> 0]

NewUser == [points_balance |-> 0, total_points_earned |-> 0,
            current_streak |-> 0, longest_streak |-> 0,
            last_streak_date |-> NoDate]

Now == today * TodSlots + tod

Weekday(d) == d % WeekLen

Max(a, b) == IF a >= b THEN a ELSE b

RECURSIVE SumSeq(_)
SumSeq(s) == IF s = <<>> THEN 0 ELSE Head(s) + SumSeq(Tail(s))

SeqRange(s) == {s[i] : i \in DOMAIN s}

\* ------------------------------------------------- services/recurrence.py
\* Variant: fortnightly without the week parity.
should_create_every_week(recurrence, target_day, created_at_weekday, custom_days, created_at_date) ==
    CASE recurrence \in {"once", "daily"} -> TRUE
      [] recurrence \in {"weekly", "fortnightly"} ->
            Weekday(target_day) = created_at_weekday
      [] recurrence = "custom" ->
            custom_days # {} /\ Weekday(target_day) \in custom_days
      [] OTHER -> FALSE

\* created_at_date = NoDate stands for the keyword argument left at None.
should_create_on_day(recurrence, target_day, created_at_weekday, custom_days, created_at_date) ==
    CASE recurrence = "once" -> TRUE
      [] recurrence = "daily" -> TRUE
      [] recurrence = "weekly" -> Weekday(target_day) = created_at_weekday
      [] recurrence = "fortnightly" ->
            IF Weekday(target_day) # created_at_weekday THEN FALSE
            ELSE IF created_at_date = NoDate THEN TRUE
            ELSE ((target_day - created_at_date) \div WeekLen) % 2 = 0
      [] recurrence = "custom" ->
            custom_days # {} /\ Weekday(target_day) \in custom_days
      [] OTHER -> FALSE

\* --------------------------------------------------- services/rotation.py
\* (now - last_rotated).days: whole days, rounded towards minus infinity.
DaysSince(then, now) == (now - then) \div TodSlots

Threshold(cadence) ==
    CASE cadence = "daily" -> DailyThreshold
      [] cadence = "weekly" -> WeeklyThreshold
      [] cadence = "fortnightly" -> FortnightlyThreshold
      [] cadence = "monthly" -> MonthlyThreshold
      [] OTHER -> WeeklyThreshold

should_advance_rotation(rot, now) ==
    IF rot.last_rotated = NoDate THEN TRUE
    ELSE DaysSince(rot.last_rotated, now) >= Threshold(rot.cadence)

advance_rotation(rot, now) ==
    [rot EXCEPT !.current_index = (rot.current_index + 1) % Len(rot.kid_ids),
                !.last_rotated = now]

\* Variant: only the days of the last, partial week are counted.
count_partial_week(start, end, weekdays) ==
    IF start = end \/ weekdays = {} THEN 0
    ELSE LET forward == end >= start
             a == IF forward THEN start ELSE end
             b == IF forward THEN end ELSE start
             remaining == (b - a) % WeekLen
             count == Cardinality({i \in 1..remaining :
                                     Weekday(a + i) \in weekdays})
         IN IF forward THEN count ELSE 0 - count

\* Variant: the range [start, end) instead of (start, end].
count_from_start(start, end, weekdays) ==
    IF start = end \/ weekdays = {} THEN 0
    ELSE LET forward == end >= start
             a == IF forward THEN start ELSE end
             b == IF forward THEN end ELSE start
             count == Cardinality({d \in a..(b - 1) : Weekday(d) \in weekdays})
         IN IF forward THEN count ELSE 0 - count

\* weekdays = {} is never passed by a caller that wants filtering: the
\* callers pass None (here NoWeekdays) when the set is empty.
_count_occurrences(start, end, weekdays) ==
    IF start = end \/ weekdays = {} THEN 0
    ELSE LET forward == end >= start
             a == IF forward THEN start ELSE end
             b == IF forward THEN end ELSE start
             total_days == b - a
             full_weeks == total_days \div WeekLen
             remaining == total_days % WeekLen
             count == full_weeks * Cardinality(weekdays)
                      + Cardinality({i \in 1..remaining :
                                       Weekday(a + i) \in weekdays})
         IN IF forward THEN count ELSE 0 - count

NoWeekdays == {-1}

\* Variant: every cadence rotates per occurrence, as the daily one does.
rotate_every_occurrence(rot, target_day, reference_day, active_weekdays) ==
    LET offset == IF active_weekdays # NoWeekdays
                  THEN _count_occurrences(reference_day, target_day,
                                          active_weekdays)
                  ELSE target_day - reference_day
    IN rot.kid_ids[((rot.current_index + offset) % Len(rot.kid_ids)) + 1]

get_rotation_kid_for_day(rot, target_day, reference_day, active_weekdays) ==
    LET offset == IF active_weekdays # NoWeekdays
                  THEN _count_occurrences(reference_day, target_day,
                                          active_weekdays)
                  ELSE target_day - reference_day
        idx == IF rot.cadence = "daily"
               THEN (rot.current_index + offset) % Len(rot.kid_ids)
               ELSE rot.current_index
    IN rot.kid_ids[idx + 1]


\* The followed run ends when its assignment row is touched by anything
\* that is not the next step of the run.
DropSaga(ids) == IF saga.id \in ids THEN NoSaga ELSE saga

\* ------------------------------------------------------------ store access
Row(id, c, u, d) ==
    [id |-> id, chore |-> c, user |-> u, date |-> d, status |-> "pending",
     completed_at |-> NoDate, verified_at |-> NoDate, verified_by |-> NoUser,
     origin |-> "request"]

\* history: the rows a scheduler call added are marked as its own
Scheduled(new, old) ==
    {IF a \in old THEN a ELSE [a EXCEPT !.origin = "scheduler"] : a \in new}

HasRow(asg, c, u, d) ==
    \E a \in asg : a.chore = c /\ a.user = u /\ a.date = d

\* Variant: a table without the unique constraint.
NoConstraint(asg) == TRUE

\* models.py: UniqueConstraint("chore_id", "user_id", "date").  A flush that
\* would leave two rows with one key raises IntegrityError and the
\* transaction is rolled back.
UniqueKeys(asg) ==
    \A a, b \in asg :
        (a.chore = b.chore /\ a.user = b.user /\ a.date = b.date) => a.id = b.id

SlotRank(s) == (s[1] * 100 + s[2]) * 1000 + s[3]

MinSlot(slots) == CHOOSE s \in slots : \A t \in slots : SlotRank(s) <= SlotRank(t)

\* db.add(ChoreAssignment(..., status=pending)) for every slot, ids taken
\* from the autoincrement counter in insertion order.
RECURSIVE AddRows(_, _, _)
AddRows(asg, slots, n) ==
    IF slots = {} THEN asg
    ELSE LET s == MinSlot(slots)
         IN AddRows(asg \cup {Row(n, s[1], s[2], s[3])}, slots \ {s}, n + 1)

\* _create_if_missing over a set of wanted slots
Missing(asg, slots) == {s \in slots : ~HasRow(asg, s[1], s[2], s[3])}

\* Variant: an insert for every wanted slot, without looking for the row.
create_without_lookup(asg, slots, n) == AddRows(asg, slots, n)

_create_if_missing(asg, slots, n) == AddRows(asg, Missing(asg, slots), n)

_load_active_chores ==
    {c \in DOMAIN chores : chores[c].exists /\ chores[c].is_active}

_load_active_rules(c) ==
    {u \in Users : rules[c][u].exists /\ rules[c][u].is_active}

_get_legacy_user_ids(c) == {a.user : a \in {b \in assignments : b.chore = c}}

WeekDates(week_start) == week_start .. (week_start + WeekLen - 1)

\* ----------------------------------- services/assignment_generator.py
_collect_active_weekdays(c) ==
    LET rs == {u \in _load_active_rules(c) : rules[c][u].recurrence # "once"}
        wd == UNION {
                 IF rules[c][u].recurrence = "custom"
                 THEN rules[c][u].custom_days
                 ELSE IF rules[c][u].recurrence \in {"weekly", "fortnightly"}
                      THEN {Weekday(chores[c].created_at)}
                      ELSE {} : u \in rs}
    IN IF \E u \in rs : rules[c][u].recurrence = "daily" THEN NoWeekdays
       ELSE IF wd = {} THEN NoWeekdays ELSE wd

\* Variant: the rule path without the skip of one-time rules.
_generate_from_rules_with_once(c, week_dates) ==
    LET rot == rotation[c]
        active_weekdays == IF rot.exists /\ rot.kid_ids # <<>>
                           THEN _collect_active_weekdays(c)
                           ELSE NoWeekdays
    IN {s \in {c} \X _load_active_rules(c) \X week_dates :
          /\ should_create_on_day(rules[c][s[2]].recurrence, s[3],
                                  Weekday(chores[c].created_at),
                                  rules[c][s[2]].custom_days,
                                  chores[c].created_at)
          /\ (rot.exists /\ rot.kid_ids # <<>>) =>
                s[2] = get_rotation_kid_for_day(rot, s[3], today,
                                                active_weekdays)
          /\ s \notin exclusions}

\* Variant: the rule path without the exclusion lookup.
_generate_from_rules_unfiltered(c, week_dates) ==
    LET rot == rotation[c]
        active_weekdays == IF rot.exists /\ rot.kid_ids # <<>>
                           THEN _collect_active_weekdays(c)
                           ELSE NoWeekdays
    IN {s \in {c} \X _load_active_rules(c) \X week_dates :
          /\ rules[c][s[2]].recurrence # "once"
          /\ should_create_on_day(rules[c][s[2]].recurrence, s[3],
                                  Weekday(chores[c].created_at),
                                  rules[c][s[2]].custom_days,
                                  chores[c].created_at)
          /\ (rot.exists /\ rot.kid_ids # <<>>) =>
                s[2] = get_rotation_kid_for_day(rot, s[3], today,
                                                active_weekdays)}

_generate_from_rules(c, week_dates) ==
    LET rot == rotation[c]
        active_weekdays == IF rot.exists THEN _collect_active_weekdays(c)
                           ELSE NoWeekdays
    IN {s \in {c} \X _load_active_rules(c) \X week_dates :
          /\ rules[c][s[2]].recurrence # "once"
          /\ should_create_on_day(rules[c][s[2]].recurrence, s[3],
                                  Weekday(chores[c].created_at),
                                  rules[c][s[2]].custom_days,
                                  chores[c].created_at)
          /\ (rot.exists /\ rot.kid_ids # <<>>) =>
                s[2] = get_rotation_kid_for_day(rot, s[3], today,
                                                active_weekdays)
          /\ s \notin exclusions}

_generate_legacy(c, week_dates) ==
    LET rot == rotation[c]
        rule_ids == _load_active_rules(c)
        user_ids == IF rule_ids # {} THEN rule_ids
                    ELSE IF rot.exists /\ rot.kid_ids # <<>>
                         THEN SeqRange(rot.kid_ids)
                         ELSE _get_legacy_user_ids(c)
    IN IF chores[c].recurrence = "once" THEN {}
       ELSE {s \in {c} \X user_ids \X week_dates :
               /\ should_create_on_day(chores[c].recurrence, s[3],
                                       Weekday(chores[c].created_at),
                                       chores[c].custom_days,
                                       chores[c].created_at)
               /\ s \notin exclusions}

\* Variant: every chore goes down the legacy path, by its own recurrence.
week_slots_by_chore_recurrence(week_start) ==
    UNION {_generate_legacy(c, WeekDates(week_start))
           : c \in _load_active_chores}

\* the slots auto_generate_week_assignments wants for the week
WeekSlots(week_start) ==
    UNION {IF _load_active_rules(c) # {}
           THEN _generate_from_rules(c, WeekDates(week_start))
           ELSE _generate_legacy(c, WeekDates(week_start))
           : c \in _load_active_chores}

Other == <<"other", 0, 1>>

\* the history entry of operation <<kind, arg>>: how often it ran in a row
Again(kind, arg) ==
    IF last[1] = kind /\ last[2] = arg THEN <<kind, arg, 2>>
    ELSE <<kind, arg, 1>>

\* One more request served.
Request ==
    /\ ops' = ops + 1
    /\ UNCHANGED session
    /\ UNCHANGED loop
    /\ last' = Other
    /\ UNCHANGED ticked

Served == Request /\ UNCHANGED removed

\* Variant: a projection that also takes the rotation's turn.
project_taking_turn(week_start) ==
    /\ ops' = ops + 1
    /\ UNCHANGED session
    /\ UNCHANGED loop
    /\ last' = Again("project", week_start)
    /\ UNCHANGED ticked
    /\ assignments' = Scheduled(_create_if_missing(assignments,
                                     WeekSlots(week_start), nextId),
                                 assignments)
    /\ nextId' = nextId + Cardinality(Missing(assignments,
                                              WeekSlots(week_start)))
    /\ rotation' = [c \in Chores |->
                      IF rotation[c].exists /\ rotation[c].kid_ids # <<>>
                      THEN advance_rotation(rotation[c], Now)
                      ELSE rotation[c]]
    /\ UNCHANGED <<today, tod, chores, rules, exclusions, users,
                   ledger, trades, saga, events, removed>>

\* GET /api/calendar, GET /api/stats/family[/{kid}]: the projection
\* Variant: a projection that clears the week's exclusions first.
project_clearing_exclusions(week_start) ==
    /\ ops' = ops + 1
    /\ UNCHANGED session
    /\ UNCHANGED loop
    /\ last' = Again("project", week_start)
    /\ UNCHANGED ticked
    /\ assignments' = Scheduled(_create_if_missing(assignments,
                                     WeekSlots(week_start), nextId),
                                 assignments)
    /\ nextId' = nextId + Cardinality(Missing(assignments,
                                              WeekSlots(week_start)))
    /\ exclusions' = {e \in exclusions : e[3] \notin WeekDates(week_start)}
    /\ UNCHANGED <<today, tod, chores, rules, rotation, users,
                   ledger, trades, saga, events, removed>>

auto_generate_week_assignments(week_start) ==
    /\ ops' = ops + 1
    /\ UNCHANGED session
    /\ UNCHANGED loop
    /\ last' = Again("project", week_start)
    /\ UNCHANGED ticked
    /\ assignments' = Scheduled(_create_if_missing(assignments,
                                     WeekSlots(week_start), nextId),
                                 assignments)
    /\ nextId' = nextId + Cardinality(Missing(assignments,
                                              WeekSlots(week_start)))
    /\ UNCHANGED <<today, tod, chores, rules, rotation, exclusions, users,
                   ledger, trades, saga, events, removed>>


\* A projection whose statements interleave with another session's.  Each
\* handler awaits every statement, so another request or the daily pass runs
\* between the lookups of _create_if_missing (the rows the other session has
\* not committed are not seen) and the flush of the rows it added.
\* assignment_generator.py:44-59 and 200-213: the lookups and db.add calls
project_lookup(week_start) ==
    /\ ~session.open
    /\ UNCHANGED loop
    /\ session' = [open |-> TRUE, week_start |-> week_start,
                   pending |-> Missing(assignments, WeekSlots(week_start))]
    /\ ops' = ops + 1
    /\ last' = Other
    /\ UNCHANGED <<today, tod, ticked, chores, rules, rotation, exclusions,
                   assignments, nextId, users, ledger, trades, saga, events,
                   removed>>

\* assignment_generator.py:61: the flush and commit of the added rows.  An
\* INSERT of a slot that has a row by now violates the unique constraint;
\* the IntegrityError is caught nowhere, the session is rolled back and the
\* request is answered 500.  History: `last` records the session.
project_commit ==
    /\ session.open
    /\ session' = NoSession
    /\ UNCHANGED loop
    /\ ops' = ops + 1
    /\ IF Missing(assignments, session.pending) = session.pending
       THEN /\ assignments' = Scheduled(AddRows(assignments, session.pending,
                                                nextId), assignments)
            /\ nextId' = nextId + Cardinality(session.pending)
            /\ last' = <<"project_commit", session, 1>>
       ELSE /\ last' = <<"rejected", 500, 1>>
            /\ UNCHANGED <<assignments, nextId>>
    /\ UNCHANGED <<today, tod, ticked, chores, rules, rotation, exclusions,
                   users, ledger, trades, saga, events, removed>>


\* ------------------------------------------------ main.py daily_reset_task
\* main.py:63-76 and 132-145: the pass's own due test
ResetShouldAdvance(rot, now) ==
    IF rot.last_rotated = NoDate THEN TRUE
    ELSE CASE rot.cadence = "daily" -> TRUE
           [] rot.cadence = "weekly" ->
                DaysSince(rot.last_rotated, now) >= WeeklyThreshold
           [] rot.cadence = "fortnightly" ->
                DaysSince(rot.last_rotated, now) >= FortnightlyThreshold
           [] rot.cadence = "monthly" ->
                DaysSince(rot.last_rotated, now) >= MonthlyThreshold
           [] OTHER -> FALSE

\* main.py:91-97 and 117-123: the pass's own firing test
ResetShouldGenerate(recurrence, custom_days, created_at, day) ==
    CASE recurrence = "daily" -> TRUE
      [] recurrence = "weekly" -> Weekday(day) = Weekday(created_at)
      [] recurrence = "custom" /\ custom_days # {} ->
            Weekday(day) \in custom_days
      [] OTHER -> FALSE

\* main.py:78-80 and 147-149
ResetAdvance(rot, now) ==
    IF ResetShouldAdvance(rot, now)
    THEN [rot EXCEPT !.current_index =
                        (rot.current_index + 1) % Len(rot.kid_ids),
                     !.last_rotated = now]
    ELSE rot

\* the rotation row of chore c after the pass has handled c
ResetRotation(c) ==
    LET rot == rotation[c]
    IN IF _load_active_rules(c) # {}
       THEN IF rot.exists THEN ResetAdvance(rot, Now) ELSE rot
       ELSE IF /\ chores[c].recurrence # "once"
               /\ ResetShouldGenerate(chores[c].recurrence,
                                      chores[c].custom_days,
                                      chores[c].created_at, today)
               /\ rot.exists
            THEN ResetAdvance(rot, Now)
            ELSE rot

\* the slots the pass wants for chore c today (rot: c's row after ResetRotation)
ResetSlots(c, rot) ==
    IF _load_active_rules(c) # {}
    THEN {s \in {c} \X _load_active_rules(c) \X {today} :
            /\ rules[c][s[2]].recurrence # "once"
            /\ rot.exists => s[2] = rot.kid_ids[rot.current_index + 1]
            /\ ResetShouldGenerate(rules[c][s[2]].recurrence,
                                   rules[c][s[2]].custom_days,
                                   chores[c].created_at, today)}
    ELSE IF \/ chores[c].recurrence = "once"
            \/ ~ResetShouldGenerate(chores[c].recurrence,
                                    chores[c].custom_days,
                                    chores[c].created_at, today)
         THEN {}
         ELSE {c} \X (IF rot.exists THEN {rot.kid_ids[rot.current_index + 1]}
                      ELSE _get_legacy_user_ids(c)) \X {today}

ResetAllSlots ==
    UNION {ResetSlots(c, ResetRotation(c)) : c \in _load_active_chores}

\* main.py:55-60 and 125-130: the pass looks at chore c's rotation
ResetReachesRotation(c) ==
    /\ rotation[c].exists
    /\ \/ _load_active_rules(c) # {}
       \/ /\ chores[c].recurrence # "once"
          /\ ResetShouldGenerate(chores[c].recurrence, chores[c].custom_days,
                                 chores[c].created_at, today)

\* main.py:69-76 and 138-145: datetime.now(timezone.utc) - last_rotated.
\* last_rotated is read back from SQLite without a time zone (the DateTime
\* column stores none; chores.py:969 and events.py:16-18 say so), and an
\* aware minus a naive datetime raises TypeError.
ResetTypeError(c) ==
    /\ ResetReachesRotation(c)
    /\ rotation[c].last_rotated # NoDate
    /\ rotation[c].cadence \in {"weekly", "fortnightly", "monthly"}

PassRaises == \E c \in _load_active_chores : ResetTypeError(c)

\* main.py:35-181: one pass of the loop body, committed at the end
daily_reset_pass ==
    /\ ~PassRaises
    /\ rotation' = [c \in DOMAIN rotation |->
                      IF c \in _load_active_chores THEN ResetRotation(c)
                      ELSE rotation[c]]
    /\ assignments' = Scheduled(_create_if_missing(assignments, ResetAllSlots,
                                                    nextId), assignments)
    /\ nextId' = nextId + Cardinality(Missing(assignments, ResetAllSlots))
    /\ ticked' = TRUE
    /\ last' = Again("reset", 0)
    /\ UNCHANGED session
    /\ UNCHANGED loop
    /\ UNCHANGED <<today, tod, ops, chores, rules, exclusions, users, ledger,
                   trades, saga, events, removed>>

\* Variant: a commit after every chore, so that the chores handled without
\* error are written although the pass raises.
daily_reset_commit_per_chore ==
    LET handled == {c \in _load_active_chores : ~ResetTypeError(c)}
        slots == UNION {ResetSlots(c, ResetRotation(c)) : c \in handled}
    IN /\ PassRaises
       /\ rotation' = [c \in DOMAIN rotation |->
                         IF c \in handled THEN ResetRotation(c)
                         ELSE rotation[c]]
       /\ assignments' = Scheduled(_create_if_missing(assignments, slots,
                                                       nextId), assignments)
       /\ nextId' = nextId + Cardinality(Missing(assignments, slots))
       /\ ticked' = TRUE
       /\ last' = <<"reset_error", 0, 1>>
       /\ loop' = [loop EXCEPT !.failed_on = today]
       /\ UNCHANGED <<today, tod, ops, chores, rules, exclusions, users,
                      ledger, trades, saga, events, removed, session>>

\* main.py:182-183: the TypeError ends the pass; the session is closed
\* without commit, so nothing the pass did for any chore is written.
daily_reset_type_error ==
    /\ PassRaises
    /\ ticked' = TRUE
    /\ last' = <<"reset_error", 0, 1>>
    /\ loop' = [loop EXCEPT !.failed_on = today]
    /\ UNCHANGED <<today, tod, ops, chores, rules, rotation, exclusions,
                   assignments, nextId, users, ledger, trades, saga, events,
                   removed, session>>

\* main.py:25-33: the loop wakes once a day at DAILY_RESET_HOUR
daily_reset_task ==
    /\ ~ticked
    /\ loop.alive
    /\ daily_reset_pass \/ daily_reset_type_error

\* Variant: an exception of the pass leaves the loop.
daily_reset_uncaught ==
    /\ ~ticked
    /\ loop.alive
    /\ ticked' = TRUE
    /\ last' = <<"reset_error", 0, 1>>
    /\ loop' = [alive |-> FALSE, failed_on |-> today]
    /\ UNCHANGED <<today, tod, ops, chores, rules, rotation, exclusions,
                   assignments, nextId, users, ledger, trades, saga, events,
                   removed, session>>

\* main.py:35-183: a pass that raises (a statement fails, a flush hits the
\* unique constraint).  The session is left without commit, so nothing is
\* written; `except Exception` prints the error and the loop goes on to
\* compute its next sleep.
daily_reset_raises ==
    /\ ~ticked
    /\ loop.alive
    /\ ticked' = TRUE
    /\ last' = <<"reset_error", 0, 1>>
    /\ loop' = [loop EXCEPT !.failed_on = today]
    /\ UNCHANGED <<today, tod, ops, chores, rules, rotation, exclusions,
                   assignments, nextId, users, ledger, trades, saga, events,
                   removed, session>>


\* The clock moves on: later the same day ...
Later ==
    /\ tod + 1 < TodSlots
    /\ tod' = tod + 1
    /\ UNCHANGED session
    /\ UNCHANGED loop
    /\ UNCHANGED <<today, ticked, last, ops, chores, rules, rotation,
                   exclusions, assignments, nextId, users, ledger, trades,
                   saga, events, removed>>

\* ... or to the next date, on which the reset loop has not yet woken.
Midnight(last_day) ==
    /\ today < last_day
    /\ today' = today + 1
    /\ tod' = 0
    /\ ticked' = FALSE
    /\ last' = Other
    /\ UNCHANGED session
    /\ UNCHANGED loop
    /\ UNCHANGED <<ops, chores, rules, rotation, exclusions, assignments,
                   nextId, users, ledger, trades, saga, events, removed>>

Clock(last_day) == Later \/ Midnight(last_day)

\* The loop wakes at the reset hour of every date: the date changes only
\* after the pass of the date has run, or when no loop is left to run it.
NextDate(last_day) ==
    /\ ticked \/ ~loop.alive
    /\ Midnight(last_day)


\* ------------------------------------------- routers/chores.py assign_chore
NoRotationRequest == [enabled |-> FALSE, cadence |-> "daily"]

ItemUsers(items) == {items[i].user_id : i \in DOMAIN items}

ItemOf(items, u) == items[CHOOSE i \in DOMAIN items : items[i].user_id = u]

\* chores.py:551-562
RequestActiveWeekdays(c, items) ==
    LET wd == UNION {
                 IF items[i].recurrence = "custom"
                 THEN items[i].custom_days
                 ELSE IF items[i].recurrence \in {"weekly", "fortnightly"}
                      THEN {Weekday(chores[c].created_at)}
                      ELSE {} : i \in DOMAIN items}
        \* the loop breaks at the first daily item; what it gathered before
        \* is discarded by the test on _has_daily
        has_daily == \E i \in DOMAIN items : items[i].recurrence = "daily"
    IN IF wd # {} /\ ~has_daily THEN wd ELSE NoWeekdays

\* Variant: the row is closed instead of reopened.
MarkSkipped(a) == [a EXCEPT !.status = "skipped"]

\* chores.py:663-674: today's row of a re-assigned kid goes back to pending
ResetToPending(a) ==
    [a EXCEPT !.status = "pending", !.completed_at = NoDate,
              !.verified_at = NoDate, !.verified_by = NoUser]

assign_chore(c, items, rot_req) ==
    LET submitted == ItemUsers(items)
        removed_user_ids == {u \in _load_active_rules(c) : u \notin submitted}
        \* chores.py:508-520
        asg1 == {a \in assignments :
                   ~(/\ a.chore = c /\ a.date >= today
                     /\ a.status = "pending" /\ a.user \in removed_user_ids)}
        rotation_active == rot_req.enabled /\ Len(items) >= 2
        new_rot == [exists |-> TRUE,
                    kid_ids |-> [i \in DOMAIN items |-> items[i].user_id],
                    cadence |-> rot_req.cadence,
                    current_index |-> 0,
                    last_rotated |-> Now]
        active_weekdays == RequestActiveWeekdays(c, items)
        \* chores.py:564-579
        asg2 == IF rotation_active
                THEN {a \in asg1 :
                        ~(/\ a.chore = c /\ a.date >= today
                          /\ a.status = "pending"
                          /\ a.user # get_rotation_kid_for_day(
                                         new_rot, a.date, today,
                                         active_weekdays))}
                ELSE asg1
        rotation_kid_id == IF rotation_active THEN new_rot.kid_ids[1]
                           ELSE NoUser
        \* chores.py:637-645: no created_at_date is passed to the evaluator
        create_today(u) ==
            /\ should_create_on_day(ItemOf(items, u).recurrence, today,
                                    Weekday(chores[c].created_at),
                                    ItemOf(items, u).custom_days, NoDate)
            /\ rotation_kid_id # NoUser => u = rotation_kid_id
        wanted == {s \in {c} \X submitted \X {today} : create_today(s[2])}
        asg3 == {IF /\ a.chore = c /\ a.date = today /\ a.user \in submitted
                    /\ create_today(a.user)
                    /\ a.status \in {"completed", "verified", "skipped"}
                 THEN ResetToPending(a) ELSE a : a \in asg2}
    IN /\ Served
       /\ chores[c].exists /\ chores[c].is_active
       /\ rules' = [rules EXCEPT ![c] =
            [u \in Users |->
               IF u \in submitted
               THEN [exists |-> TRUE, is_active |-> TRUE,
                     recurrence |-> ItemOf(items, u).recurrence,
                     custom_days |-> ItemOf(items, u).custom_days,
                     requires_photo |-> ItemOf(items, u).requires_photo]
               ELSE IF u \in removed_user_ids
                    THEN [rules[c][u] EXCEPT !.is_active = FALSE]
                    ELSE rules[c][u]]]
       /\ rotation' = [rotation EXCEPT ![c] =
            IF rotation_active THEN new_rot ELSE NoRotation]
       \* chores.py:584-596
       /\ exclusions' = IF rotation_active
                        THEN {e \in exclusions : ~(e[1] = c /\ e[3] >= today)}
                        ELSE exclusions
       /\ assignments' = _create_if_missing(asg3, wanted, nextId)
       /\ nextId' = nextId + Cardinality(Missing(asg3, wanted))
       /\ saga' = DropSaga({a.id : a \in assignments \ asg3})
       /\ UNCHANGED <<today, tod, chores, users, ledger, trades, events>>


\* --------------------------------------- routers/calendar.py removal
\* calendar.py:411-415
is_recurring(a) == chores[a.chore].exists /\ chores[a.chore].recurrence # "once"

\* calendar.py:451-471
\* Variant: the rows from the date on, whatever their status.
remove_future_any_status(a) ==
    {b \in assignments :
       b.chore = a.chore /\ b.user = a.user /\ b.date >= a.date}

_remove_future_assignments(a) ==
    {b \in assignments :
       /\ b.chore = a.chore /\ b.user = a.user /\ b.date >= a.date
       /\ b.status = "pending"}

remove_assignment(id, all_future) ==
    \E a \in assignments :
       /\ a.id = id
       /\ Request
       /\ a.status = "pending"
       /\ LET gone == IF all_future THEN _remove_future_assignments(a)
                      ELSE {a}
              slots == IF is_recurring(a)
                       THEN {<<b.chore, b.user, b.date>> : b \in gone}
                       ELSE {}
          IN /\ assignments' = assignments \ gone
             /\ exclusions' = exclusions \cup slots
             /\ removed' = removed \cup slots
             /\ saga' = DropSaga({b.id : b \in gone})
       /\ UNCHANGED <<today, tod, chores, rules, rotation, nextId, users,
                      ledger, trades, events>>

\* chores.py:322-358
cleanup_all_stale ==
    /\ Served
    /\ assignments' = {a \in assignments : a.status # "pending"}
    /\ exclusions' = {}
    /\ saga' = DropSaga({a.id : a \in {b \in assignments :
                                          b.status = "pending"}})
    /\ UNCHANGED <<today, tod, chores, rules, rotation, nextId, users,
                   ledger, trades, events>>

\* ------------------------------------------ routers/chores.py chore CRUD
\* chores.py:281-319.  assigned_user_ids is a list: a user named twice
\* makes the flush insert one key twice, which the unique constraint refuses.
create_chore(c, recurrence, custom_days, points, requires_photo, uids) ==
    LET rows == {Row(nextId + i - 1, c, uids[i], today) : i \in DOMAIN uids}
    IN /\ Served
       /\ ~chores[c].exists
       /\ points > 0
       /\ UniqueKeys(assignments \cup rows)
       /\ chores' = [chores EXCEPT ![c] =
            [exists |-> TRUE, is_active |-> TRUE, recurrence |-> recurrence,
             custom_days |-> custom_days, created_at |-> today,
             points |-> points, requires_photo |-> requires_photo]]
       /\ assignments' = assignments \cup rows
       /\ nextId' = nextId + Len(uids)
       /\ UNCHANGED <<today, tod, rules, rotation, exclusions, users, ledger,
                      trades, saga, events>>

\* chores.py:371-420 with body {points} or {points, assigned_user_ids}
update_chore(c, points, has_ids, uids) ==
    LET wanted == IF has_ids THEN {c} \X SeqRange(uids) \X {today} ELSE {}
        stale == IF has_ids
                 THEN {a \in assignments :
                         /\ a.chore = c /\ a.date = today
                         /\ a.status = "pending"
                         /\ a.user \notin SeqRange(uids)}
                 ELSE {}
    IN /\ Served
       /\ chores[c].exists /\ chores[c].is_active
       /\ chores' = [chores EXCEPT ![c].points = points]
       /\ assignments' = _create_if_missing(assignments, wanted, nextId) \ stale
       /\ nextId' = nextId + Cardinality(Missing(assignments, wanted))
       /\ saga' = DropSaga({a.id : a \in stale})
       /\ UNCHANGED <<today, tod, rules, rotation, exclusions, users, ledger,
                      trades, events>>

\* ------------------------------------------ routers/calendar.py trading
\* calendar.py:205-267
propose_trade(id, target) ==
    \E a \in assignments :
       /\ a.id = id
       /\ Served
       /\ a.status = "pending"
       /\ target \in Users /\ target # a.user
       /\ trades' = trades \cup {[to |-> target, ref |-> id]}
       /\ UNCHANGED <<today, tod, chores, rules, rotation, exclusions,
                      assignments, nextId, users, ledger, saga, events>>

\* calendar.py:270-330.  The commit flushes the rewritten user_id; the unique
\* constraint refuses it when the accepting kid already has a row for the
\* chore and date, and the request fails with nothing written.
accept_trade(n) ==
    \E a \in assignments :
       /\ n \in trades
       /\ a.id = n.ref
       /\ Served
       /\ a.status = "pending"
       /\ LET moved == (assignments \ {a}) \cup {[a EXCEPT !.user = n.to]}
          IN /\ UniqueKeys(moved)
             /\ assignments' = moved
       /\ saga' = DropSaga({a.id})
       /\ UNCHANGED <<today, tod, chores, rules, rotation, exclusions, nextId,
                      users, ledger, trades, events>>


\* ------------------------------------------------- routers/rotations.py
\* A request answered with an error status: nothing is written.  History:
\* `last` records the handler's status code.
Rejected(status_code) ==
    /\ ops' = ops + 1
    /\ UNCHANGED session
    /\ UNCHANGED loop
    /\ last' = <<"rejected", status_code, 1>>
    /\ UNCHANGED <<today, tod, ticked, chores, rules, rotation, exclusions,
                   assignments, nextId, users, ledger, trades, events, saga,
                   removed>>

\* A rotation request that was carried out.  History: `last` records the
\* handler and the rotation row as the handler found it.
RotationServed(kind, c) ==
    /\ ops' = ops + 1
    /\ UNCHANGED session
    /\ UNCHANGED loop
    /\ last' = <<kind, rotation[c], 1>>
    /\ UNCHANGED <<today, tod, ticked, chores, rules, exclusions,
                   assignments, nextId, users, ledger, trades, events, saga,
                   removed>>

\* rotations.py:29-57
create_rotation(c, kid_ids, cadence) ==
    IF kid_ids = <<>> THEN Rejected(400)
    ELSE IF rotation[c].exists THEN Rejected(409)
    ELSE /\ RotationServed("create_rotation", c)
         /\ rotation' = [rotation EXCEPT ![c] =
               [exists |-> TRUE, kid_ids |-> kid_ids, cadence |-> cadence,
                current_index |-> 0, last_rotated |-> NoDate]]

\* Variant: the member list is replaced and the index left as it was.
update_rotation_keeping_index(c, has_kid_ids, kid_ids, has_cadence, cadence) ==
    IF ~rotation[c].exists THEN Rejected(404)
    ELSE IF has_kid_ids /\ kid_ids = <<>> THEN Rejected(400)
    ELSE /\ RotationServed("update_rotation", c)
         /\ rotation' = [rotation EXCEPT ![c] =
               [@ EXCEPT !.kid_ids = IF has_kid_ids THEN kid_ids ELSE @,
                         !.cadence = IF has_cadence THEN cadence ELSE @]]

\* rotations.py:61-91
update_rotation(c, has_kid_ids, kid_ids, has_cadence, cadence) ==
    IF ~rotation[c].exists THEN Rejected(404)
    ELSE IF has_kid_ids /\ kid_ids = <<>> THEN Rejected(400)
    ELSE /\ RotationServed("update_rotation", c)
         /\ rotation' = [rotation EXCEPT ![c] =
               [@ EXCEPT !.kid_ids = IF has_kid_ids THEN kid_ids ELSE @,
                         !.current_index =
                            IF has_kid_ids /\ @ >= Len(kid_ids) THEN 0 ELSE @,
                         !.cadence = IF has_cadence THEN cadence ELSE @]]

\* rotations.py:95-112
delete_rotation(c) ==
    IF ~rotation[c].exists THEN Rejected(404)
    ELSE /\ RotationServed("delete_rotation", c)
         /\ rotation' = [rotation EXCEPT ![c] = NoRotation]

\* rotations.py:116-142, POST /api/rotations/{id}/advance
advance_rotation_request(c) ==
    IF ~rotation[c].exists THEN Rejected(404)
    ELSE IF rotation[c].kid_ids = <<>> THEN Rejected(400)
    ELSE /\ RotationServed("advance_rotation", c)
         /\ rotation' = [rotation EXCEPT ![c] =
               [@ EXCEPT !.current_index = (@ + 1) % Len(rotation[c].kid_ids),
                         !.last_rotated = Now]]


\* ------------------------------- routers/chores.py assignment lifecycle
\* Variant: only the base award counts as an award of the assignment.
BaseAwardOnly == {"chore_complete"}

AwardTypes == {"chore_complete", "event_multiplier"}

\* chores.py:1116-1126: the award entries of one assignment and kid
AwardEntries(u, id) ==
    SelectSeq(ledger, LAMBDA tx : /\ tx.user_id = u /\ tx.reference_id = id
                                  /\ tx.type \in AwardTypes)

Amounts(txs) == [i \in DOMAIN txs |-> txs[i].amount]

\* chores.py:854-865
\* Variant: the chore's own flag decides, whatever the kid's rule says.
ChoreRequiresPhoto(c, u) == chores[c].requires_photo

EffectiveRequiresPhoto(c, u) ==
    IF rules[c][u].exists /\ rules[c][u].is_active
    THEN rules[c][u].requires_photo
    ELSE chores[c].requires_photo

\* chores.py:825-895
complete_chore(c, u, has_file) ==
    \E a \in assignments :
       /\ a.chore = c /\ a.user = u /\ a.date = today /\ a.status = "pending"
       /\ Served
       /\ EffectiveRequiresPhoto(c, u) => has_file
       /\ assignments' = (assignments \ {a}) \cup
             {[a EXCEPT !.status = "completed", !.completed_at = Now]}
       /\ saga' = [stage |-> "completed", id |-> a.id, user |-> u,
                   bal0 |-> users[u].points_balance,
                   life0 |-> users[u].total_points_earned,
                   prior |-> SumSeq(Amounts(AwardEntries(u, a.id))),
                   awarded |-> 0]
       /\ UNCHANGED <<today, tod, chores, rules, rotation, exclusions, nextId,
                      users, ledger, trades, events>>

\* chores.py:825-871: the request with its error answers.  has_file stands
\* for an upload that is present and not empty.
post_complete(c, u, has_file) ==
    IF ~\E a \in assignments : /\ a.chore = c /\ a.user = u
                                /\ a.date = today /\ a.status = "pending"
    THEN Rejected(404)
    ELSE IF EffectiveRequiresPhoto(c, u) /\ ~has_file THEN Rejected(400)
    ELSE complete_chore(c, u, has_file)

\* chores.py:980-982: the product of the active events' multipliers, as the
\* fraction num / den
RECURSIVE MultiplierNum(_)
MultiplierNum(evs) ==
    IF evs = <<>> THEN 1 ELSE Head(evs) * MultiplierNum(Tail(evs))

RECURSIVE MultiplierDen(_)
MultiplierDen(evs) ==
    IF evs = <<>> THEN 1 ELSE 100 * MultiplierDen(Tail(evs))

\* Python's int(): truncation towards zero
IntTrunc(num, den) ==
    IF num >= 0 THEN num \div den ELSE 0 - ((0 - num) \div den)

\* multiplier is a double.  1.16 is stored as 1.15999999999999992, and the
\* double nearest to 25 * 1.16 is 28.999999999999996; every other product of
\* the chore values and event sets used here is the double nearest to, and
\* truncates like, the exact product.
DoubleFallsShort(base_points, evs) == <<base_points, evs>> \in {<<25, <<116>>>>}

\* chores.py:995: int(base_points * multiplier)
IntOfProduct(base_points, evs) ==
    IntTrunc(base_points * MultiplierNum(evs), MultiplierDen(evs))
       - (IF DoubleFallsShort(base_points, evs) THEN 1 ELSE 0)

\* chores.py:994-1005
BonusPoints(base_points, evs) ==
    IF MultiplierNum(evs) > MultiplierDen(evs)
    THEN Max(0, IntOfProduct(base_points, evs) - base_points)
    ELSE 0

\* Variant: every verify on a new date extends the streak.
StreakNeverResets(kid) ==
    LET cur == IF kid.last_streak_date = today THEN kid.current_streak
               ELSE kid.current_streak + 1
    IN [kid EXCEPT !.current_streak = cur,
                   !.last_streak_date = today,
                   !.longest_streak = Max(kid.longest_streak, cur)]

\* chores.py:1014-1024
StreakAfter(kid) ==
    LET cur == IF kid.last_streak_date = today THEN kid.current_streak
               ELSE IF /\ kid.last_streak_date # NoDate
                       /\ today - kid.last_streak_date = 1
                    THEN kid.current_streak + 1
                    ELSE 1
    IN [kid EXCEPT !.current_streak = cur,
                   !.last_streak_date = today,
                   !.longest_streak = Max(kid.longest_streak, cur)]

Tx(u, amount, type, ref) ==
    [user_id |-> u, amount |-> amount, type |-> type, reference_id |-> ref]

\* chores.py:936-1085.  scalar_one_or_none() raises when the task has more
\* than one completed assignment today; the request then fails.
verify_chore(c) ==
    \E a \in assignments :
       /\ a.chore = c /\ a.date = today /\ a.status = "completed"
       /\ \A b \in assignments :
             (b.chore = c /\ b.date = today /\ b.status = "completed") => b = a
       /\ Served
       /\ LET base_points == chores[c].points
              bonus == BonusPoints(base_points, events)
              total_awarded == base_points + bonus
              kid == users[a.user]
          IN /\ assignments' = (assignments \ {a}) \cup
                   {[a EXCEPT !.status = "verified", !.verified_at = Now,
                              !.verified_by = Parent]}
             /\ ledger' = ledger
                    \o <<Tx(a.user, base_points, "chore_complete", a.id)>>
                    \o (IF bonus > 0
                        THEN <<Tx(a.user, bonus, "event_multiplier", a.id)>>
                        ELSE <<>>)
             /\ users' = [users EXCEPT ![a.user] =
                   StreakAfter([kid EXCEPT
                      !.points_balance = kid.points_balance + total_awarded,
                      !.total_points_earned =
                          kid.total_points_earned + total_awarded])]
             /\ saga' = IF saga.id = a.id /\ saga.stage = "completed"
                        THEN [saga EXCEPT !.stage = "verified",
                                          !.awarded = total_awarded]
                        ELSE IF saga.user = a.user THEN NoSaga ELSE saga
       \* chores.py:1040-1052
       /\ rules' = IF /\ chores[c].recurrence = "once"
                      /\ rules[c][a.user].exists /\ rules[c][a.user].is_active
                   THEN [rules EXCEPT ![c][a.user].is_active = FALSE]
                   ELSE rules
       /\ UNCHANGED <<today, tod, chores, rotation, exclusions, nextId,
                      trades, events>>

\* Variant: uncomplete also takes the verify's day off the streak.
uncomplete_undoing_streak(c) ==
    \E a \in assignments :
       /\ a.chore = c /\ a.date = today
       /\ a.status \in {"completed", "verified"}
       /\ \A b \in assignments :
             (/\ b.chore = c /\ b.date = today
              /\ b.status \in {"completed", "verified"}) => b = a
       /\ Served
       /\ LET total_deducted == SumSeq(Amounts(AwardEntries(a.user, a.id)))
          IN users' = [users EXCEPT ![a.user].points_balance =
                          Max(0, users[a.user].points_balance - total_deducted),
                                    ![a.user].current_streak =
                          Max(0, users[a.user].current_streak - 1)]
       /\ ledger' = SelectSeq(ledger,
                       LAMBDA tx : ~(/\ tx.user_id = a.user
                                     /\ tx.reference_id = a.id
                                     /\ tx.type \in AwardTypes))
       /\ assignments' = (assignments \ {a}) \cup {ResetToPending(a)}
       /\ saga' = IF saga.id = a.id /\ saga.stage = "verified"
                  THEN [saga EXCEPT !.stage = "undone"]
                  ELSE IF saga.user = a.user \/ saga.id = a.id THEN NoSaga
                       ELSE saga
       /\ UNCHANGED <<today, tod, chores, rules, rotation, exclusions, nextId,
                      trades, events>>

\* chores.py:1088-1151
uncomplete_chore(c) ==
    \E a \in assignments :
       /\ a.chore = c /\ a.date = today
       /\ a.status \in {"completed", "verified"}
       /\ \A b \in assignments :
             (/\ b.chore = c /\ b.date = today
              /\ b.status \in {"completed", "verified"}) => b = a
       /\ Served
       /\ LET total_deducted == SumSeq(Amounts(AwardEntries(a.user, a.id)))
          IN users' = [users EXCEPT ![a.user].points_balance =
                          Max(0, users[a.user].points_balance - total_deducted)]
       /\ ledger' = SelectSeq(ledger,
                       LAMBDA tx : ~(/\ tx.user_id = a.user
                                     /\ tx.reference_id = a.id
                                     /\ tx.type \in AwardTypes))
       /\ assignments' = (assignments \ {a}) \cup {ResetToPending(a)}
       /\ saga' = IF saga.id = a.id /\ saga.stage = "verified"
                  THEN [saga EXCEPT !.stage = "undone"]
                  ELSE IF saga.user = a.user \/ saga.id = a.id THEN NoSaga
                       ELSE saga
       /\ UNCHANGED <<today, tod, chores, rules, rotation, exclusions, nextId,
                      trades, events>>

\* chores.py:1154-1184
skip_chore(c) ==
    \E a \in assignments :
       /\ a.chore = c /\ a.date = today /\ a.status = "pending"
       /\ \A b \in assignments :
             (b.chore = c /\ b.date = today /\ b.status = "pending") => b = a
       /\ Served
       /\ assignments' = (assignments \ {a}) \cup
             {[a EXCEPT !.status = "skipped"]}
       /\ saga' = DropSaga({a.id})
       /\ UNCHANGED <<today, tod, chores, rules, rotation, exclusions, nextId,
                      users, ledger, trades, events>>

\* calendar.py:378-409: the request with its error answers
remove_assignment_request(id, all_future) ==
    IF ~\E a \in assignments : a.id = id THEN Rejected(404)
    ELSE IF \E a \in assignments : a.id = id /\ a.status # "pending"
         THEN Rejected(400)
    ELSE remove_assignment(id, all_future)

\* The lifecycle requests with their error answers.  The handlers select
\* the chore's row of today in the wanted status with scalar_one_or_none():
\* no row is answered 404, more than one row raises MultipleResultsFound
\* (500); both before anything is written.
CompletedToday(c) ==
    {a \in assignments : a.chore = c /\ a.date = today /\ a.status = "completed"}

DoneToday(c) ==
    {a \in assignments : /\ a.chore = c /\ a.date = today
                         /\ a.status \in {"completed", "verified"}}

OpenToday(c) ==
    {a \in assignments : a.chore = c /\ a.date = today /\ a.status = "pending"}

SelectError(rows) == IF rows = {} THEN Rejected(404) ELSE Rejected(500)

\* chores.py:936-959
post_verify(c) ==
    IF Cardinality(CompletedToday(c)) # 1 THEN SelectError(CompletedToday(c))
    ELSE verify_chore(c)

\* chores.py:1088-1111
post_uncomplete(c) ==
    IF Cardinality(DoneToday(c)) # 1 THEN SelectError(DoneToday(c))
    ELSE uncomplete_chore(c)

\* Variant: a skip that finds no pending row skips whatever row is there.
post_skip_any_status(c) ==
    IF OpenToday(c) = {}
    THEN /\ Served
         /\ assignments' = {IF a.chore = c /\ a.date = today
                            THEN [a EXCEPT !.status = "skipped"] ELSE a :
                            a \in assignments}
         /\ UNCHANGED <<today, tod, chores, rules, rotation, exclusions,
                        nextId, users, ledger, trades, events, saga>>
    ELSE IF Cardinality(OpenToday(c)) # 1 THEN Rejected(500)
    ELSE skip_chore(c)

\* chores.py:1154-1175
post_skip(c) ==
    IF Cardinality(OpenToday(c)) # 1 THEN SelectError(OpenToday(c))
    ELSE skip_chore(c)

\* routers/points.py:126-160
adjust_points(u, amount) ==
    /\ Served
    /\ users[u].points_balance + amount >= 0
    /\ users' = [users EXCEPT
          ![u].points_balance = users[u].points_balance + amount,
          ![u].total_points_earned =
              IF amount > 0 THEN users[u].total_points_earned + amount
              ELSE users[u].total_points_earned]
    /\ ledger' = ledger \o <<Tx(u, amount, "adjustment", 0)>>
    /\ saga' = IF saga.user = u THEN NoSaga ELSE saga
    /\ UNCHANGED <<today, tod, chores, rules, rotation, exclusions,
                   assignments, nextId, trades, events>>


\* ------------------------------------------------------------ the system
\* The store after init_db and seed_database: no chores, no assignments;
\* the household's kids exist with no points.
Init ==
    /\ today = 0
    /\ tod = 0
    /\ ticked = FALSE
    /\ last = Other
    /\ ops = 0
    /\ chores = [c \in Chores |-> NoChore]
    /\ rules = [c \in Chores |-> [u \in Users |-> NoRule]]
    /\ rotation = [c \in Chores |-> NoRotation]
    /\ exclusions = {}
    /\ assignments = {}
    /\ nextId = 1
    /\ users = [u \in Users |-> NewUser]
    /\ ledger = <<>>
    /\ trades = {}
    /\ events = <<>>
    /\ saga = NoSaga
    /\ removed = {}
    /\ session = NoSession
    /\ loop = Sleeping

Item(u, recurrence, requires_photo) ==
    [user_id |-> u, recurrence |-> recurrence,
     custom_days |-> IF recurrence = "custom" THEN MonWedFri ELSE {},
     requires_photo |-> requires_photo]

CustomDaysOf(recurrence) == IF recurrence = "custom" THEN MonWedFri ELSE {}

\* request bodies of POST /api/chores/{id}/assign
AssignBodies ==
    {<<>>, <<Item(1, "daily", FALSE)>>, <<Item(1, "weekly", TRUE)>>,
     <<Item(1, "daily", FALSE), Item(2, "daily", FALSE)>>,
     <<Item(2, "custom", FALSE), Item(1, "custom", FALSE)>>}

RotationRequests ==
    {NoRotationRequest, [enabled |-> TRUE, cadence |-> "daily"],
     [enabled |-> TRUE, cadence |-> "weekly"]}

WeekStarts == {w * WeekLen : w \in 0..MaxWeek}

Ids == 1..(nextId - 1)

TimePasses == Clock(MaxDay)

Requests ==
    \/ \E ws \in WeekStarts : auto_generate_week_assignments(ws)
    \/ \E c \in Chores, r \in {"daily", "once"}, uids \in {<<1>>, <<1, 1>>, <<1, 2>>} :
          create_chore(c, r, {}, 2, FALSE, uids)
    \/ \E c \in Chores, p \in {2, -1} : update_chore(c, p, FALSE, <<>>)
    \/ \E c \in Chores : update_chore(c, chores[c].points, TRUE, <<2>>)
    \/ \E c \in Chores, items \in AssignBodies, rr \in RotationRequests :
          assign_chore(c, items, rr)
    \/ \E id \in Ids, af \in BOOLEAN : remove_assignment(id, af)
    \/ cleanup_all_stale
    \/ \E id \in Ids, u \in Users : propose_trade(id, u)
    \/ \E n \in trades : accept_trade(n)
    \/ \E c \in Chores, u \in Users, f \in BOOLEAN : complete_chore(c, u, f)
    \/ \E c \in Chores : verify_chore(c)
    \/ \E c \in Chores : uncomplete_chore(c)
    \/ \E c \in Chores : skip_chore(c)
    \/ \E u \in Users, amt \in {1, -1} : adjust_points(u, amt)

Next ==
    \/ TimePasses
    \/ daily_reset_task
    \/ ops < MaxOps /\ Requests

Spec == Init /\ [][Next]_vars

\* The scheduling engine alone.  It starts from a store in which chore 1
\* was created on day 0 (a Monday), with or without a first assignee.
ChoreRow(recurrence, points) ==
    [exists |-> TRUE, is_active |-> TRUE, recurrence |-> recurrence,
     custom_days |-> CustomDaysOf(recurrence), created_at |-> 0,
     points |-> points, requires_photo |-> FALSE]

InitSched ==
    /\ today = 0
    /\ tod = 0
    /\ ticked = FALSE
    /\ last = Other
    /\ ops = 0
    /\ \E r \in Recurrences : chores = [c \in Chores |-> ChoreRow(r, 2)]
    /\ rules = [c \in Chores |-> [u \in Users |-> NoRule]]
    /\ rotation = [c \in Chores |-> NoRotation]
    /\ exclusions = {}
    /\ \E uids \in {<<>>, <<1>>} :
          /\ assignments = {Row(i, 1, uids[i], 0) : i \in DOMAIN uids}
          /\ nextId = Len(uids) + 1
    /\ users = [u \in Users |-> NewUser]
    /\ ledger = <<>>
    /\ trades = {}
    /\ events = <<>>
    /\ saga = NoSaga
    /\ removed = {}
    /\ session = NoSession
    /\ loop = Sleeping

SchedTime == Midnight(SchedDays)

SchedRequests ==
    \/ \E ws \in WeekStarts : auto_generate_week_assignments(ws)
    \/ \E c \in Chores, items \in AssignBodies, rr \in RotationRequests :
          assign_chore(c, items, rr)
    \/ \E id \in Ids, af \in BOOLEAN : remove_assignment(id, af)
    \/ cleanup_all_stale

SchedNext ==
    \/ SchedTime
    \/ daily_reset_task
    \/ ops < SchedOps /\ SchedRequests

SpecSched == InitSched /\ [][SchedNext]_vars

\* The same, with a second pass on one date.  The loop sleeps for a computed
\* number of seconds and then runs the pass without looking at the date
\* (main.py:26-36): a wake-up shortly before the reset hour is followed by
\* another one at the hour, and every process serving the app runs a loop of
\* its own.
daily_reset_again ==
    /\ ticked
    /\ tod = TodSlots - 1
    /\ last # <<"reset", 0, 2>>
    /\ daily_reset_pass

RerunNext ==
    \/ Clock(SchedDays)
    \/ daily_reset_task
    \/ daily_reset_again
    \/ ops < RerunOps /\ SchedRequests

SpecRerun == InitSched /\ [][RerunNext]_vars


\* The assignment lifecycle alone, over longer runs: chore 1 is a daily
\* chore worth 2 points with today's row for kid 1, and a seasonal event
\* with multiplier 1.5 may be running.
InitLife ==
    /\ today = 0
    /\ tod = 0
    /\ ticked = FALSE
    /\ last = Other
    /\ ops = 0
    /\ chores = [c \in Chores |-> ChoreRow("daily", 2)]
    /\ rules = [c \in Chores |-> [u \in Users |-> NoRule]]
    /\ rotation = [c \in Chores |-> NoRotation]
    /\ exclusions = {}
    /\ assignments = {Row(1, 1, 1, 0)}
    /\ nextId = 2
    /\ users = [u \in Users |-> NewUser]
    /\ ledger = <<>>
    /\ trades = {}
    /\ events \in {<<>>, <<150>>}
    /\ saga = NoSaga
    /\ removed = {}
    /\ session = NoSession
    /\ loop = Sleeping

LifeRequests ==
    \/ \E c \in Chores, u \in Users, f \in BOOLEAN : complete_chore(c, u, f)
    \/ \E c \in Chores : verify_chore(c)
    \/ \E c \in Chores : uncomplete_chore(c)
    \/ \E c \in Chores : skip_chore(c)
    \/ \E c \in Chores, rp \in BOOLEAN :
          assign_chore(c, <<Item(1, "daily", rp)>>, NoRotationRequest)
    \/ \E c \in Chores, p \in {3, -1} : update_chore(c, p, FALSE, <<>>)
    \/ \E u \in Users, amt \in {1, -1} : adjust_points(u, amt)

LifeNext ==
    \/ Midnight(LifeDays)
    \/ daily_reset_task
    \/ ops < LifeOps /\ LifeRequests

SpecLife == InitLife /\ [][LifeNext]_vars


\* Verification alone, over chore values and sets of running events:
\* chore 1 has today's row for each kid.
InitAward ==
    /\ today = 0
    /\ tod = 0
    /\ ticked = FALSE
    /\ last = Other
    /\ ops = 0
    /\ \E p \in AwardPoints : chores = [c \in Chores |-> ChoreRow("daily", p)]
    /\ rules = [c \in Chores |-> [u \in Users |-> NoRule]]
    /\ rotation = [c \in Chores |-> NoRotation]
    /\ exclusions = {}
    /\ assignments = {Row(u, 1, u, 0) : u \in Users}
    /\ nextId = Cardinality(Users) + 1
    /\ users = [u \in Users |-> NewUser]
    /\ ledger = <<>>
    /\ trades = {}
    /\ events \in AwardEvents
    /\ saga = NoSaga
    /\ removed = {}
    /\ session = NoSession
    /\ loop = Sleeping

AwardRequests ==
    \/ \E c \in Chores, u \in Users, f \in BOOLEAN : complete_chore(c, u, f)
    \/ \E c \in Chores : verify_chore(c)
    \/ \E c \in Chores : uncomplete_chore(c)

AwardNext ==
    \/ Midnight(AwardDays)
    \/ daily_reset_task
    \/ ops < AwardOps /\ AwardRequests

SpecAward == InitAward /\ [][AwardNext]_vars


\* A one-time chore: chore 1 was created with recurrence once and nobody
\* assigned; it is then assigned, done, verified and projected.
InitOnce ==
    /\ today = 0
    /\ tod = 0
    /\ ticked = FALSE
    /\ last = Other
    /\ ops = 0
    /\ \E r \in {"once", "daily"} : chores = [c \in Chores |-> ChoreRow(r, 2)]
    /\ rules = [c \in Chores |-> [u \in Users |-> NoRule]]
    /\ rotation = [c \in Chores |-> NoRotation]
    /\ exclusions = {}
    /\ assignments = {}
    /\ nextId = 1
    /\ users = [u \in Users |-> NewUser]
    /\ ledger = <<>>
    /\ trades = {}
    /\ events = <<>>
    /\ saga = NoSaga
    /\ removed = {}
    /\ session = NoSession
    /\ loop = Sleeping

OnceBodies ==
    {<<>>, <<Item(1, "once", FALSE)>>, <<Item(1, "daily", FALSE)>>,
     <<Item(1, "once", FALSE), Item(2, "daily", FALSE)>>}

OnceRequests ==
    \/ \E ws \in WeekStarts : auto_generate_week_assignments(ws)
    \/ \E c \in Chores, items \in OnceBodies :
          assign_chore(c, items, NoRotationRequest)
    \/ \E c \in Chores, u \in Users, f \in BOOLEAN : complete_chore(c, u, f)
    \/ \E c \in Chores : verify_chore(c)

OnceNext ==
    \/ Midnight(OnceDays)
    \/ daily_reset_task
    \/ ops < OnceOps /\ OnceRequests

SpecOnce == InitOnce /\ [][OnceNext]_vars


\* The rotation tracker alone: a rotation of two or three members for a
\* daily chore created on day 0 (a Monday), read for target days on both
\* sides of the reference day `today`, and advanced by the daily pass.
RotationMembers == {<<1, 2>>, <<1, 2, 3>>}

WeekdaySets == {NoWeekdays, {}, MonWedFri, {1}, 0..(WeekLen - 1)}

InitRot ==
    /\ today = 0
    /\ tod = 0
    /\ ticked = FALSE
    /\ last = Other
    /\ ops = 0
    /\ chores = [c \in Chores |-> ChoreRow("daily", 2)]
    /\ rules = [c \in Chores |-> [u \in Users |-> NoRule]]
    /\ \E kid_ids \in RotationMembers, cadence \in {"daily", "weekly"} :
       \E current_index \in 0..(Len(kid_ids) - 1) :
          rotation = [c \in Chores |->
                        [exists |-> TRUE, kid_ids |-> kid_ids,
                         cadence |-> cadence,
                         current_index |-> current_index,
                         last_rotated |-> NoDate]]
    /\ exclusions = {}
    /\ assignments = {}
    /\ nextId = 1
    /\ users = [u \in Users |-> NewUser]
    /\ ledger = <<>>
    /\ trades = {}
    /\ events = <<>>
    /\ saga = NoSaga
    /\ removed = {}
    /\ session = NoSession
    /\ loop = Sleeping

\* one evaluation of get_rotation_kid_for_day with `today` as the reference
\* day; history: `last` records the call and the kid it returned
kid_for_day(c, target_day, active_weekdays) ==
    /\ rotation[c].exists
    /\ last' = <<"kid_for_day", <<target_day, active_weekdays>>,
                 get_rotation_kid_for_day(rotation[c], target_day, today,
                                          active_weekdays)>>
    /\ UNCHANGED session
    /\ UNCHANGED loop
    /\ UNCHANGED <<today, tod, ticked, ops, chores, rules, rotation,
                   exclusions, assignments, nextId, users, ledger, trades,
                   events, saga, removed>>

RotTargets == (today - RotSpan)..(today + RotSpan)

RotNext ==
    \/ Midnight(RotDays)
    \/ daily_reset_task
    \/ \E c \in Chores, d \in RotTargets, aw \in WeekdaySets :
          kid_for_day(c, d, aw)

SpecRot == InitRot /\ [][RotNext]_vars


\* The rotation endpoints next to the re-assignment, the projection and the
\* daily pass, for a daily chore created on day 0.
KidLists == {<<>>, <<1>>, <<1, 2>>, <<2, 1>>}

RotateBodies ==
    {<<>>, <<Item(1, "daily", FALSE), Item(2, "daily", FALSE)>>}

InitRotate ==
    /\ today = 0
    /\ tod = 0
    /\ ticked = FALSE
    /\ last = Other
    /\ ops = 0
    /\ chores = [c \in Chores |-> ChoreRow("daily", 2)]
    /\ rules = [c \in Chores |-> [u \in Users |-> NoRule]]
    /\ rotation = [c \in Chores |-> NoRotation]
    /\ exclusions = {}
    /\ assignments = {}
    /\ nextId = 1
    /\ users = [u \in Users |-> NewUser]
    /\ ledger = <<>>
    /\ trades = {}
    /\ events = <<>>
    /\ saga = NoSaga
    /\ removed = {}
    /\ session = NoSession
    /\ loop = Sleeping

RotateRequests ==
    \/ \E c \in Chores, kid_ids \in KidLists, cadence \in {"daily", "weekly"} :
          create_rotation(c, kid_ids, cadence)
    \/ \E c \in Chores, has_kid_ids \in BOOLEAN, kid_ids \in KidLists :
          update_rotation(c, has_kid_ids, kid_ids, TRUE, "daily")
    \/ \E c \in Chores : delete_rotation(c)
    \/ \E c \in Chores : advance_rotation_request(c)
    \/ \E c \in Chores, items \in RotateBodies, rr \in RotationRequests :
          assign_chore(c, items, rr)
    \/ \E ws \in WeekStarts : auto_generate_week_assignments(ws)
    \/ \E id \in Ids, af \in BOOLEAN : remove_assignment(id, af)

RotateNext ==
    \/ Midnight(RotateDays)
    \/ daily_reset_task
    \/ ops < RotateOps /\ RotateRequests

SpecRotate == InitRotate /\ [][RotateNext]_vars


\* Two materializations at a time: the projection of a second session is in
\* flight while projections and the daily pass run.
RaceRequests ==
    \/ \E ws \in WeekStarts : auto_generate_week_assignments(ws)
    \/ \E ws \in WeekStarts : project_lookup(ws)
    \/ project_commit
    \/ \E c \in Chores, items \in RotateBodies :
          assign_chore(c, items, NoRotationRequest)

RaceNext ==
    \/ Midnight(RaceDays)
    \/ daily_reset_task
    \/ ops < RaceOps /\ RaceRequests

SpecRace == InitSched /\ [][RaceNext]_vars


\* Completion with and without a photo: chore 1 is due today for kid 1,
\* with the chore's own requires_photo flag set or not, and kid 1's rule is
\* created, changed and withdrawn.
InitProof ==
    /\ today = 0
    /\ tod = 0
    /\ ticked = FALSE
    /\ last = Other
    /\ ops = 0
    /\ \E rp \in BOOLEAN :
          chores = [c \in Chores |->
                      [ChoreRow("daily", 2) EXCEPT !.requires_photo = rp]]
    /\ rules = [c \in Chores |-> [u \in Users |-> NoRule]]
    /\ rotation = [c \in Chores |-> NoRotation]
    /\ exclusions = {}
    /\ assignments = {Row(1, 1, 1, 0)}
    /\ nextId = 2
    /\ users = [u \in Users |-> NewUser]
    /\ ledger = <<>>
    /\ trades = {}
    /\ events = <<>>
    /\ saga = NoSaga
    /\ removed = {}
    /\ session = NoSession
    /\ loop = Sleeping

ProofBodies ==
    {<<>>, <<Item(1, "daily", FALSE)>>, <<Item(1, "daily", TRUE)>>,
     <<Item(2, "daily", TRUE)>>}

ProofRequests ==
    \/ \E c \in Chores, u \in Users, f \in BOOLEAN : post_complete(c, u, f)
    \/ \E c \in Chores : uncomplete_chore(c)
    \/ \E c \in Chores, items \in ProofBodies :
          assign_chore(c, items, NoRotationRequest)

ProofNext ==
    \/ Midnight(ProofDays)
    \/ daily_reset_task
    \/ ops < ProofOps /\ ProofRequests

SpecProof == InitProof /\ [][ProofNext]_vars


\* The lifecycle requests with their refusals, for a daily chore that is due
\* today for kid 1.
RejectRequests ==
    \/ \E c \in Chores, u \in Users, f \in BOOLEAN : post_complete(c, u, f)
    \/ \E c \in Chores : post_verify(c)
    \/ \E c \in Chores : post_uncomplete(c)
    \/ \E c \in Chores : post_skip(c)
    \/ \E c \in Chores :
          assign_chore(c, <<Item(1, "daily", FALSE), Item(2, "daily", FALSE)>>,
                       NoRotationRequest)

RejectNext ==
    \/ Midnight(RejectDays)
    \/ daily_reset_task
    \/ ops < RejectOps /\ RejectRequests

SpecReject == InitLife /\ [][RejectNext]_vars


\* The background loop over several dates, with passes that raise.  The
\* sleep of the loop ends (asyncio.sleep returns) and the date moves on, so
\* both are taken when they stay possible.
LoopRequests ==
    \/ \E ws \in WeekStarts : auto_generate_week_assignments(ws)
    \/ \E c \in Chores, items \in RotateBodies, rr \in RotationRequests :
          assign_chore(c, items, rr)

LoopWakes == daily_reset_task \/ daily_reset_raises

LoopNext ==
    \/ NextDate(LoopDays)
    \/ daily_reset_task
    \/ daily_reset_raises
    \/ ops < LoopOps /\ LoopRequests

SpecLoop ==
    /\ InitSched /\ [][LoopNext]_vars
    /\ WF_vars(NextDate(LoopDays)) /\ WF_vars(LoopWakes)


\* Every handler that deletes assignment rows, next to the lifecycle that
\* gives rows a status worth keeping.
HistoryRequests ==
    \/ \E c \in Chores, u \in Users : post_complete(c, u, TRUE)
    \/ \E c \in Chores : post_verify(c)
    \/ \E c \in Chores : post_skip(c)
    \/ \E id \in Ids, af \in BOOLEAN : remove_assignment_request(id, af)
    \/ cleanup_all_stale
    \/ \E c \in Chores, items \in RotateBodies, rr \in RotationRequests :
          assign_chore(c, items, rr)
    \/ \E c \in Chores : update_chore(c, chores[c].points, TRUE, <<2>>)

HistoryNext ==
    \/ Midnight(HistoryDays)
    \/ daily_reset_task
    \/ ops < HistoryOps /\ HistoryRequests

SpecHistory == InitLife /\ [][HistoryNext]_vars


\* The pass over more than a week, for a daily chore with a rule for each of
\* two kids and a rotation of either cadence that was never advanced or was
\* stamped on day 0, early or late.
InitDue ==
    /\ today = 0
    /\ tod = 0
    /\ ticked = FALSE
    /\ last = Other
    /\ ops = 0
    /\ chores = [c \in Chores |-> ChoreRow("daily", 2)]
    /\ rules = [c \in Chores |-> [u \in Users |->
                  [exists |-> TRUE, is_active |-> TRUE, recurrence |-> "daily",
                   custom_days |-> {}, requires_photo |-> FALSE]]]
    /\ \E cadence \in Cadences, last_rotated \in {NoDate} \cup (0..(TodSlots - 1)) :
          rotation = [c \in Chores |->
                        [exists |-> TRUE, kid_ids |-> <<1, 2>>,
                         cadence |-> cadence, current_index |-> 0,
                         last_rotated |-> last_rotated]]
    /\ exclusions = {}
    /\ assignments = {}
    /\ nextId = 1
    /\ users = [u \in Users |-> NewUser]
    /\ ledger = <<>>
    /\ trades = {}
    /\ events = <<>>
    /\ saga = NoSaga
    /\ removed = {}
    /\ session = NoSession
    /\ loop = Sleeping

DueNext ==
    \/ Clock(DueDays)
    \/ daily_reset_task
    \/ ops < DueOps /\ \E c \in Chores : advance_rotation_request(c)

SpecDue == InitDue /\ [][DueNext]_vars


\* Two chores in one household: chore 1 is daily with a daily rotation over
\* kids 1 and 2 who both have a daily rule; chore 2 is daily too and either
\* has no rotation or a weekly one that assign_chore stamped on day 0.
RoundChores == {1, 2}

DailyRule ==
    [exists |-> TRUE, is_active |-> TRUE, recurrence |-> "daily",
     custom_days |-> {}, requires_photo |-> FALSE]

InitRound ==
    /\ today = 0
    /\ tod = 0
    /\ ticked = FALSE
    /\ last = Other
    /\ ops = 0
    /\ chores = [c \in RoundChores |-> ChoreRow("daily", 2)]
    /\ rules = [c \in RoundChores |-> [u \in Users |-> DailyRule]]
    /\ \E last_rotated \in {NoDate} \cup (0..(TodSlots - 1)),
          other \in {NoRotation,
                     [exists |-> TRUE, kid_ids |-> <<1, 2>>,
                      cadence |-> "weekly", current_index |-> 0,
                      last_rotated |-> 0]} :
          rotation = [c \in RoundChores |->
                        IF c = 1
                        THEN [exists |-> TRUE, kid_ids |-> <<1, 2>>,
                              cadence |-> "daily", current_index |-> 0,
                              last_rotated |-> last_rotated]
                        ELSE other]
    /\ exclusions = {}
    /\ assignments = {}
    /\ nextId = 1
    /\ users = [u \in Users |-> NewUser]
    /\ ledger = <<>>
    /\ trades = {}
    /\ events = <<>>
    /\ saga = NoSaga
    /\ removed = {}
    /\ session = NoSession
    /\ loop = Sleeping

RoundRequests ==
    \/ \E ws \in WeekStarts : auto_generate_week_assignments(ws)
    \/ \E c \in Chores : advance_rotation_request(c)

RoundNext ==
    \/ Clock(RoundDays)
    \/ daily_reset_task
    \/ ops < RoundOps /\ RoundRequests

SpecRound == InitRound /\ [][RoundNext]_vars


\* One chore whose two kids have rules of any recurrence or none, with or
\* without a daily rotation over both and an earlier row of kid 2; the clock
\* runs over two weeks so that a fortnightly rule meets a week in which it
\* fires and one in which it does not.
RuleOf(recurrence, custom_days) ==
    [exists |-> TRUE, is_active |-> TRUE, recurrence |-> recurrence,
     custom_days |-> custom_days, requires_photo |-> FALSE]

RuleChoices ==
    {RuleOf(r, {}) : r \in Recurrences \ {"custom"}}
       \cup {RuleOf("custom", {}), RuleOf("custom", MonWedFri)}

InitFiring ==
    /\ today = 0
    /\ tod = 0
    /\ ticked = FALSE
    /\ last = Other
    /\ ops = 0
    /\ \E r \in {"once", "weekly"} : chores = [c \in Chores |-> ChoreRow(r, 2)]
    /\ \E r1 \in RuleChoices, r2 \in RuleChoices \cup {NoRule} :
          rules = [c \in Chores |-> [u \in Users |-> IF u = 1 THEN r1 ELSE r2]]
    /\ \E rot \in {NoRotation,
                    [exists |-> TRUE, kid_ids |-> <<2, 1>>, cadence |-> "daily",
                     current_index |-> 0, last_rotated |-> NoDate]} :
          rotation = [c \in Chores |-> rot]
    /\ exclusions = {}
    /\ \E uids \in {<<>>, <<2>>} :
          /\ assignments = {Row(i, 1, uids[i], 0) : i \in DOMAIN uids}
          /\ nextId = Len(uids) + 1
    /\ users = [u \in Users |-> NewUser]
    /\ ledger = <<>>
    /\ trades = {}
    /\ events = <<>>
    /\ saga = NoSaga
    /\ removed = {}
    /\ session = NoSession
    /\ loop = Sleeping

FiringRequests ==
    \E ws \in WeekStarts : auto_generate_week_assignments(ws)

FiringNext ==
    \/ Clock(FiringDays)
    \/ daily_reset_task
    \/ ops < FiringOps /\ FiringRequests

SpecFiring == InitFiring /\ [][FiringNext]_vars


\* The evaluator alone: a chore created on any day of three weeks, asked
\* about target days of five weeks, with and without the creation date.
InitFires ==
    /\ today = 0
    /\ tod = 0
    /\ ticked = FALSE
    /\ last = Other
    /\ ops = 0
    /\ \E created_at \in 0..FiresAnchors :
          chores = [c \in Chores |->
                      [ChoreRow("fortnightly", 2) EXCEPT !.created_at = created_at]]
    /\ rules = [c \in Chores |-> [u \in Users |-> NoRule]]
    /\ rotation = [c \in Chores |-> NoRotation]
    /\ exclusions = {}
    /\ assignments = {}
    /\ nextId = 1
    /\ users = [u \in Users |-> NewUser]
    /\ ledger = <<>>
    /\ trades = {}
    /\ events = <<>>
    /\ saga = NoSaga
    /\ removed = {}
    /\ session = NoSession
    /\ loop = Sleeping

\* one evaluation of should_create_on_day for chore c as its callers make it
\* (assignment_generator.py:234-238 with created_at_date, chores.py:638-640
\* without); history: `last` records the call and the answer
fires_on(c, target_day, with_date) ==
    LET created_at_date == IF with_date THEN chores[c].created_at ELSE NoDate
    IN /\ last' = <<"fires", <<target_day, created_at_date>>,
                    should_create_on_day(chores[c].recurrence, target_day,
                                         Weekday(chores[c].created_at),
                                         chores[c].custom_days,
                                         created_at_date)>>
       /\ UNCHANGED session
       /\ UNCHANGED loop
       /\ UNCHANGED <<today, tod, ticked, ops, chores, rules, rotation,
                      exclusions, assignments, nextId, users, ledger, trades,
                      events, saga, removed>>

FiresNext ==
    \E c \in Chores, d \in 0..FiresSpan, with_date \in BOOLEAN :
        fires_on(c, d, with_date)

SpecFires == InitFires /\ [][FiresNext]_vars


\* Assignment and scheduling over the two weeks after a chore's creation:
\* rules of the recurrences that depend on the creation date are set on any
\* day of the first or the second week.
SoundBodies ==
    {<<>>, <<Item(1, "fortnightly", FALSE)>>,
     <<Item(1, "weekly", FALSE), Item(2, "custom", FALSE)>>}

SoundRequests ==
    \/ \E c \in Chores, items \in SoundBodies :
          assign_chore(c, items, NoRotationRequest)
    \/ \E ws \in WeekStarts : auto_generate_week_assignments(ws)

SoundNext ==
    \/ Midnight(SoundDays)
    \/ daily_reset_task
    \/ ops < SoundOps /\ SoundRequests

SpecSound == InitRotate /\ [][SoundNext]_vars


\* The occurrence counter alone, next to the projection that uses it: one
\* evaluation per reference day, a count between any two dates of two and a
\* half weeks or a read of the rotation for a target on either side of the
\* reference day.
\* one evaluation of _count_occurrences; history: `last` records the call
\* and the count
occurrences_between(start, end, weekdays) ==
    /\ last' = <<"count", <<start, end, weekdays>>,
                 _count_occurrences(start, end, weekdays)>>
    /\ UNCHANGED session
    /\ UNCHANGED loop
    /\ UNCHANGED <<today, tod, ticked, ops, chores, rules, rotation,
                   exclusions, assignments, nextId, users, ledger, trades,
                   events, saga, removed>>

CountNext ==
    \/ Midnight(CountDays)
    \/ /\ last = Other
       /\ \E start \in 0..CountSpan, end \in 0..CountSpan,
             weekdays \in WeekdaySets \ {NoWeekdays} :
             occurrences_between(start, end, weekdays)
    \/ /\ last = Other
       /\ \E c \in Chores, d \in RotTargets, aw \in WeekdaySets :
             kid_for_day(c, d, aw)

SpecCount == InitRot /\ [][CountNext]_vars


\* ================================================================ claims
Slot(a) == <<a.chore, a.user, a.date>>

SlotHasRow(asg, s) == HasRow(asg, s[1], s[2], s[3])

ProjectStep == \E ws \in WeekStarts : auto_generate_week_assignments(ws)

Members(c) == IF rotation[c].exists THEN SeqRange(rotation[c].kid_ids) ELSE {}

\* C1 -- read/write separation: a projection, for any week and in any
\* state, leaves every rotation's current_index and last_rotated (and the
\* rest of the rotation row) as they were.
ReadWriteSeparation == [][ProjectStep => rotation' = rotation]_vars

\* a projection has just filled future dates of a chore whose rotation has
\* already moved on from its first member
ProjectedUnderRotation ==
    /\ last[1] = "project"
    /\ \E c \in Chores :
          /\ rotation[c].exists
          /\ rotation[c].current_index = 1
          /\ \E a \in assignments :
                a.chore = c /\ a.origin = "scheduler" /\ a.date > today

\* C2 -- projection idempotence: a second projection of the same week,
\* directly after the first and on the same date, creates nothing and leaves
\* assignments, rotations and exclusions as the first call left them; no two
\* rows share a key.
ProjectIdempotent ==
    [][\A ws \in WeekStarts :
          (last[1] = "project" /\ last[2] = ws
              /\ auto_generate_week_assignments(ws))
          => /\ assignments' = assignments
             /\ nextId' = nextId
             /\ rotation' = rotation
             /\ exclusions' = exclusions
             /\ UniqueKeys(assignments')]_vars

\* the second of two projections of one week has run, over a week in which
\* the first one created rows
ProjectedTwice ==
    /\ last[1] = "project" /\ last[3] = 2
    /\ \E a \in assignments :
          a.origin = "scheduler" /\ a.date \in WeekDates(last[2])

\* C3 -- commit idempotence: a second daily pass on the same date, directly
\* after the first, creates no assignment and leaves every rotation as the
\* first pass left it.
CommitIdempotent ==
    [][(last[1] = "reset" /\ daily_reset_pass)
          => (assignments' = assignments /\ rotation' = rotation)]_vars

\* C4 -- exclusion suppression: removing a pending assignment of a
\* recurring chore deletes the row and records its slot as an exclusion, and
\* a projection creates no row in a slot that is recorded as an exclusion.
ExclusionSuppression ==
    [][/\ \A id \in Ids, af \in BOOLEAN :
             remove_assignment(id, af) =>
                \A a \in assignments :
                    (a.id = id /\ is_recurring(a)) =>
                        /\ Slot(a) \in exclusions'
                        /\ ~SlotHasRow(assignments', Slot(a))
       /\ ProjectStep =>
             \A s \in exclusions :
                 SlotHasRow(assignments', s) => SlotHasRow(assignments, s)]_vars

\* a projection has just covered the date of a removed slot of a chore with
\* assignment rules, filled that kid's other dates and left the slot empty
ProjectedAroundExclusion ==
    /\ last[1] = "project"
    /\ \E s \in exclusions \cap removed :
          /\ s[3] \in WeekDates(last[2])
          /\ rules[s[1]][s[2]].exists /\ rules[s[1]][s[2]].is_active
          /\ ~SlotHasRow(assignments, s)
          /\ \E a \in assignments :
                /\ a.chore = s[1] /\ a.user = s[2]
                /\ a.date \in WeekDates(last[2]) /\ a.origin = "scheduler"

\* C4 as stated: once a user removed a slot of a recurring chore, no later
\* projection ever creates a row in it.
RemovedNeverRecreated ==
    [][ProjectStep =>
          \A s \in removed :
              SlotHasRow(assignments', s) => SlotHasRow(assignments, s)]_vars

\* C5 -- the daily pass creates no assignment in a slot that is recorded
\* as an exclusion.
CommitHonoursExclusions ==
    [][daily_reset_pass =>
          \A a \in assignments' \ assignments : Slot(a) \notin exclusions]_vars

\* C6 -- rotation exclusivity: a scheduler call (projection or daily pass)
\* never adds a row for one member of a chore's rotation to a date that
\* already carries a scheduler-created pending row of another member.
RotationExclusive ==
    [][(ProjectStep \/ daily_reset_pass) =>
          \A a \in assignments' \ assignments, b \in assignments' :
              (/\ b.chore = a.chore /\ b.date = a.date
               /\ b.origin = "scheduler" /\ b.status = "pending"
               /\ a.user \in Members(a.chore) /\ b.user \in Members(a.chore))
              => b.user = a.user]_vars

\* C7 -- assignment key uniqueness: in every reachable state no two
\* assignment rows share (chore, user, date).
AssignmentKeysUnique ==
    \A a, b \in assignments : Slot(a) = Slot(b) => a = b

\* a proposed trade whose acceptance would give the accepting kid a second
\* row for the same chore and date
TradeWouldCollide ==
    \E n \in trades, a, b \in assignments :
        /\ a.id = n.ref /\ a.status = "pending"
        /\ b.id # a.id /\ b.chore = a.chore /\ b.date = a.date
        /\ b.user = n.to

StatusMoves(a, b, from, to) == a.status \in from /\ b.status = to

\* the transitions of the lifecycle handlers, each in its handler's step
LifecycleMove(a, b) ==
    \/ a.status = b.status
    \/ /\ StatusMoves(a, b, {"pending"}, "completed")
       /\ \E f \in BOOLEAN : complete_chore(a.chore, a.user, f)
    \/ /\ StatusMoves(a, b, {"completed"}, "verified")
       /\ verify_chore(a.chore)
    \/ /\ StatusMoves(a, b, {"pending"}, "skipped")
       /\ skip_chore(a.chore)
    \/ /\ StatusMoves(a, b, {"completed", "verified"}, "pending")
       /\ uncomplete_chore(a.chore)

\* the reopening of today's row by a new assignment of its kid
ReassignMove(a, b) ==
    /\ StatusMoves(a, b, {"completed", "verified", "skipped"}, "pending")
    /\ a.date = today
    /\ \E items \in AssignBodies, rr \in RotationRequests :
          a.user \in ItemUsers(items) /\ assign_chore(a.chore, items, rr)

CreatedPending ==
    \A b \in assignments' :
        (\A a \in assignments : a.id # b.id) => b.status = "pending"

\* C8 -- lifecycle transition relation, with the reopening: a row is
\* created pending, and its status changes only by complete (pending to
\* completed), verify (completed to verified), skip (pending to skipped),
\* uncomplete (completed or verified to pending), or by assign_chore naming
\* its kid again on its date (completed, verified or skipped to pending).
LifecycleWithReassign ==
    [][/\ CreatedPending
       /\ \A a \in assignments, b \in assignments' :
             a.id = b.id => (LifecycleMove(a, b) \/ ReassignMove(a, b))]_vars

\* a verified row was reopened by assign_chore: it is pending again and its
\* award is still in the ledger
ReopenedAfterVerify ==
    \E a \in assignments :
        a.status = "pending" /\ AwardEntries(a.user, a.id) # <<>>

\* C8 as stated: the status changes only along the four lifecycle
\* transitions; skipped is terminal and verified returns to pending only
\* through uncomplete.
LifecycleRelation ==
    [][/\ CreatedPending
       /\ \A a \in assignments, b \in assignments' :
             a.id = b.id => LifecycleMove(a, b)]_vars

\* C9 -- reversal, as the code does it: after complete, verify, uncomplete
\* on one assignment the kid's balance is the pre-completion balance less the
\* awards the ledger already held for the assignment (not below zero), the
\* lifetime total keeps the points the verify awarded, and the ledger holds
\* no award entry of the kid for the assignment.
ReversalKeepsLifetime ==
    saga.stage = "undone" =>
        /\ users[saga.user].points_balance = Max(0, saga.bal0 - saga.prior)
        /\ users[saga.user].total_points_earned = saga.life0 + saga.awarded
        /\ AwardEntries(saga.user, saga.id) = <<>>

\* a reversal of an award that carried an event bonus
ReversedWithBonus == saga.stage = "undone" /\ saga.awarded > chores[1].points

\* C9 as stated: the reversal restores balance and lifetime total to their
\* pre-completion values and leaves no ledger entry referencing the
\* assignment.
ReversalExact ==
    saga.stage = "undone" =>
        /\ users[saga.user].points_balance = saga.bal0
        /\ users[saga.user].total_points_earned = saga.life0
        /\ \A i \in DOMAIN ledger : ledger[i].reference_id # saga.id

\* C10 -- the lifetime total of no user ever decreases.
LifetimeMonotonic ==
    [][\A u \in Users :
          users'[u].total_points_earned >= users[u].total_points_earned]_vars

\* C11 -- non-negative points: in every reachable state every user's
\* balance and lifetime total are at least zero.
NonNegativePoints ==
    \A u \in Users :
        users[u].points_balance >= 0 /\ users[u].total_points_earned >= 0

Appended == SubSeq(ledger', Len(ledger) + 1, Len(ledger'))

\* floor(basePoints x product) - basePoints, in exact arithmetic
ExactBonus(base_points, evs) ==
    ((base_points * MultiplierNum(evs)) \div MultiplierDen(evs)) - base_points

\* C12 -- verify award: a verify appends one base entry of the chore's
\* points and, iff the product of the running events' multipliers exceeds 1
\* and floor(points x product) - points is positive, one bonus entry of that
\* amount, and raises balance and lifetime total by the sum.
VerifyAward ==
    [][\A c \in Chores, a \in assignments :
          (/\ a.chore = c /\ a.date = today /\ a.status = "completed"
           /\ verify_chore(c))
          => LET base == chores[c].points
                 bonus == ExactBonus(base, events)
                 paid == MultiplierNum(events) > MultiplierDen(events)
                            /\ bonus > 0
                 total == base + (IF paid THEN bonus ELSE 0)
             IN /\ Appended =
                      <<Tx(a.user, base, "chore_complete", a.id)>> \o
                      (IF paid
                       THEN <<Tx(a.user, bonus, "event_multiplier", a.id)>>
                       ELSE <<>>)
                /\ users'[a.user].points_balance =
                      users[a.user].points_balance + total
                /\ users'[a.user].total_points_earned =
                      users[a.user].total_points_earned + total]_vars

\* C13 -- streak rule: a verify sets the kid's last streak date to today;
\* the current streak stays as it is when the last streak date was today
\* already, grows by one when it was yesterday, and becomes 1 otherwise (an
\* older date or none); the longest streak is the larger of its old value
\* and the new current streak.
StreakRule ==
    [][\A c \in Chores, a \in assignments :
          (/\ a.chore = c /\ a.date = today /\ a.status = "completed"
           /\ verify_chore(c))
          => LET old == users[a.user]
                 new == users'[a.user]
             IN /\ new.last_streak_date = today
                /\ old.last_streak_date = today =>
                      new.current_streak = old.current_streak
                /\ (old.last_streak_date # NoDate
                      /\ old.last_streak_date = today - 1) =>
                      new.current_streak = old.current_streak + 1
                /\ (old.last_streak_date = NoDate
                      \/ old.last_streak_date < today - 1) =>
                      new.current_streak = 1
                /\ new.longest_streak >= old.longest_streak
                /\ new.longest_streak >= new.current_streak
                /\ new.longest_streak \in
                      {old.longest_streak, new.current_streak}]_vars

\* a kid verified on two consecutive days, missed a day, and has just been
\* verified again: the streak is back at 1 and the longest streak is kept
StreakResetAfterGap ==
    \E u \in Users :
        /\ users[u].last_streak_date = today
        /\ users[u].current_streak = 1
        /\ users[u].longest_streak = 2

SchedulerStep == ProjectStep \/ daily_reset_pass

OverridingRule(c, u) ==
    /\ rules[c][u].exists /\ rules[c][u].is_active
    /\ rules[c][u].recurrence # "once"

\* C14 -- one-time exhaustion: for a chore with recurrence once, a
\* projection or daily pass creates an assignment for a kid only while the
\* kid has an active rule with another recurrence; a kid without a rule,
\* with a once rule, or whose rule was deactivated gets none, so the row made
\* when the chore was assigned stays the only one.  Verifying the kid's
\* assignment of such a chore deactivates the kid's rule.
OneTimeExhaustion ==
    [][/\ SchedulerStep =>
             \A a \in assignments' \ assignments :
                 chores[a.chore].recurrence = "once" =>
                     OverridingRule(a.chore, a.user)
       /\ \A c \in Chores, a \in assignments :
             (/\ a.chore = c /\ a.date = today /\ a.status = "completed"
              /\ chores[c].recurrence = "once"
              /\ verify_chore(c))
             => ~(rules'[c][a.user].exists /\ rules'[c][a.user].is_active)]_vars

\* a scheduler call has run after the verify of a one-time chore deactivated
\* the kid's rule, and the kid still has the one assignment
ScheduledAfterExhaustion ==
    /\ last[1] \in {"project", "reset"}
    /\ \E c \in Chores, u \in Users :
          /\ chores[c].recurrence = "once"
          /\ rules[c][u].exists /\ ~rules[c][u].is_active
          /\ Cardinality({a \in assignments : a.chore = c /\ a.user = u}) = 1
          /\ \E a \in assignments :
                a.chore = c /\ a.user = u /\ a.status = "verified"

\* C14 as stated: for a chore with recurrence once no projection and no
\* daily pass creates an assignment.
OnceNeverScheduled ==
    [][SchedulerStep =>
          \A a \in assignments' \ assignments :
              chores[a.chore].recurrence # "once"]_vars

CurrentKid(c) == rotation[c].kid_ids[rotation[c].current_index + 1]

Occurrences(reference_day, target_day, active_weekdays) ==
    LET active(d) == active_weekdays = NoWeekdays
                     \/ Weekday(d) \in active_weekdays
    IN IF target_day >= reference_day
       THEN Cardinality({d \in (reference_day + 1)..target_day : active(d)})
       ELSE 0 - Cardinality({d \in (target_day + 1)..reference_day :
                               active(d)})

ABC == <<1, 2, 3>>

MondayExample(c) ==
    /\ rotation[c].kid_ids = ABC /\ rotation[c].current_index = 0
    /\ rotation[c].cadence = "daily" /\ Weekday(today) = 0

\* C16 -- rotation fairness, daily cadence: the kid returned for a target
\* day is the member at (current_index + occurrences) mod len(members),
\* where occurrences is the signed number of active-weekday dates after the
\* reference day up to and including the target day.  With members
\* [A,B,C], index 0, active weekdays Mon/Wed/Fri and a Monday reference,
\* the following Wednesday is the first occurrence ahead and yields B, the
\* following Friday is the second and yields C.
DailyRotationFairness ==
    [][\A c \in Chores, d \in RotTargets, aw \in WeekdaySets :
          (kid_for_day(c, d, aw) /\ rotation[c].cadence = "daily") =>
              /\ last'[3] = rotation[c].kid_ids[
                     ((rotation[c].current_index + Occurrences(today, d, aw))
                        % Len(rotation[c].kid_ids)) + 1]
              /\ (MondayExample(c) /\ aw = MonWedFri /\ d = today + 2)
                    => last'[3] = ABC[2]
              /\ (MondayExample(c) /\ aw = MonWedFri /\ d = today + 4)
                    => last'[3] = ABC[3]]_vars

\* the example's rotation was read for the Wednesday after the Monday
WednesdayProjected ==
    /\ MondayExample(1)
    /\ last = <<"kid_for_day", <<today + 2, MonWedFri>>, ABC[2]>>

\* C16 as stated: in the example the following Wednesday yields C.
WednesdayYieldsC ==
    [][\A c \in Chores :
          (kid_for_day(c, today + 2, MonWedFri) /\ MondayExample(c))
              => last'[3] = ABC[3]]_vars

IndexInBounds(rot) ==
    rot.exists => /\ rot.kid_ids # <<>>
                  /\ 0 <= rot.current_index
                  /\ rot.current_index < Len(rot.kid_ids)

EmptyListRequest ==
    \E c \in Chores, cadence \in Cadences, has_cadence \in BOOLEAN :
        \/ create_rotation(c, <<>>, cadence)
        \/ rotation[c].exists
           /\ update_rotation(c, TRUE, <<>>, has_cadence, cadence)

\* C17 -- rotation index invariant: every rotation has a non-empty member
\* list and 0 <= current_index < len(kid_ids), initially and after every
\* step (creation, replacement of the list, re-assignment, manual advance,
\* the daily pass); a request with an empty member list is answered 400 and
\* leaves every rotation as it was.
RotationIndexInvariant ==
    /\ \A c \in Chores : IndexInBounds(rotation[c])
    /\ [][/\ \A c \in Chores : IndexInBounds(rotation'[c])
          /\ EmptyListRequest =>
                (rotation' = rotation /\ last' = <<"rejected", 400, 1>>)]_vars

\* the member list was replaced by a shorter one while the index pointed
\* past its end, and the index was reset
ListShrunkUnderIndex ==
    /\ last[1] = "update_rotation"
    /\ \E c \in Chores :
          /\ rotation[c].exists
          /\ last[2].current_index >= Len(rotation[c].kid_ids)
          /\ rotation[c].current_index = 0

\* rotation c took a turn: the row is as it was but for the index, one
\* further (modulo the length), and last_rotated, stamped with the present
\* time
Advanced(c) ==
    /\ rotation[c].exists /\ rotation'[c].exists
    /\ rotation'[c] # rotation[c]
    /\ rotation'[c] =
          [rotation[c] EXCEPT
              !.current_index = (@ + 1) % Len(rotation[c].kid_ids),
              !.last_rotated = Now]

\* a re-assignment of chore c that set its rotation up anew, at index 0
RotationReset(c) ==
    /\ \E items \in RotateBodies, rr \in RotationRequests :
          assign_chore(c, items, rr)
    /\ rotation'[c].current_index = 0

ProjectReadOnly == ProjectStep => (rotation' = rotation /\ exclusions' = exclusions)

\* C18 -- single advancer: a rotation takes a turn only in the daily pass
\* or in the parent's manual advance request (a re-assignment of the chore
\* puts the rotation back to index 0 and stamps it, which for a rotation at
\* its last member looks the same); no other request does, and a projection
\* leaves every rotation and every exclusion row as it was.
SingleAdvancer ==
    [][/\ \A c \in Chores :
             Advanced(c) => \/ daily_reset_pass
                            \/ advance_rotation_request(c)
                            \/ RotationReset(c)
       /\ ProjectReadOnly]_vars

\* a projection ran while an exclusion was on file and the rotation had
\* been moved on from its first member
ProjectedAfterAdvance ==
    /\ last[1] = "project"
    /\ exclusions # {}
    /\ \E c \in Chores :
          /\ rotation[c].exists /\ rotation[c].current_index = 1
          /\ \E a \in assignments : a.chore = c /\ a.origin = "scheduler"

\* C18 as stated: a rotation takes a turn only in the daily pass (or is put
\* back to index 0 by a re-assignment), and a projection leaves rotations and
\* exclusions alone.
OnlyTheTickAdvances ==
    [][/\ \A c \in Chores :
             Advanced(c) => (daily_reset_pass \/ RotationReset(c))
       /\ ProjectReadOnly]_vars

\* C19 -- concurrent create-if-missing: when the commit of a projection
\* follows its lookups with other materializations in between, it completes
\* without error, every slot it wanted has a row afterwards, and no slot has
\* two rows.
ConcurrentCreateIfMissing ==
    [][project_commit =>
          /\ last'[1] # "rejected"
          /\ \A s \in session.pending : SlotHasRow(assignments', s)
          /\ \A a, b \in assignments' : Slot(a) = Slot(b) => a = b]_vars

PendingToday(c, u) ==
    {a \in assignments : /\ a.chore = c /\ a.user = u /\ a.date = today
                         /\ a.status = "pending"}

\* the flag of the kid's active rule if there is one, else the chore's
PhotoFlag(c, u) ==
    \/ rules[c][u].exists /\ rules[c][u].is_active /\ rules[c][u].requires_photo
    \/ ~(rules[c][u].exists /\ rules[c][u].is_active) /\ chores[c].requires_photo

\* C20 -- photo proof: a completion request for a pending assignment whose
\* effective requires-photo flag is set, sent without a (non-empty) photo, is
\* answered 400 -- not the 404 of a missing assignment -- and leaves the
\* assignment pending with no completion time; with the flag clear the
\* request completes the assignment without a photo.
PhotoProof ==
    [][\A c \in Chores, u \in Users :
          (post_complete(c, u, FALSE) /\ PendingToday(c, u) # {}) =>
             IF PhotoFlag(c, u)
             THEN /\ last' = <<"rejected", 400, 1>>
                  /\ assignments' = assignments
                  /\ \A a \in PendingToday(c, u) : a.completed_at = NoDate
             ELSE /\ last'[1] # "rejected"
                  /\ \A a \in PendingToday(c, u) :
                        [a EXCEPT !.status = "completed",
                                  !.completed_at = Now] \in assignments']_vars

\* a completion without photo was refused because the kid's rule asks for
\* one although the chore does not, and the assignment is still pending
RefusedForProof ==
    /\ last = <<"rejected", 400, 1>>
    /\ \E c \in Chores, u \in Users :
          /\ ~chores[c].requires_photo
          /\ rules[c][u].exists /\ rules[c][u].is_active
          /\ rules[c][u].requires_photo
          /\ \E a \in PendingToday(c, u) : a.completed_at = NoDate

\* a lifecycle request whose precondition fails
FailedPrecondition ==
    \E c \in Chores :
        \/ \E u \in Users : PendingToday(c, u) = {} /\ post_complete(c, u, TRUE)
        \/ CompletedToday(c) = {} /\ post_verify(c)
        \/ DoneToday(c) = {} /\ post_uncomplete(c)
        \/ OpenToday(c) = {} /\ post_skip(c)

\* C21 -- rejected transitions change nothing: complete without a pending
\* assignment of the caller today, verify without a completed one, uncomplete
\* without a completed or verified one and skip without a pending one are
\* answered with an error and leave the assignments (status and timestamps),
\* the ledger and the users' balance, lifetime total and streak as they were.
RejectedChangesNothing ==
    [][FailedPrecondition =>
          /\ last'[1] = "rejected"
          /\ assignments' = assignments
          /\ ledger' = ledger
          /\ users' = users]_vars

\* a request was refused after an award had been made: a verified row, a
\* ledger entry and a streak were there to be kept
RefusedAfterAward ==
    /\ last = <<"rejected", 404, 1>>
    /\ ledger # <<>>
    /\ \E a \in assignments :
          /\ a.status = "verified" /\ a.date = today
          /\ users[a.user].current_streak = 1
          /\ users[a.user].points_balance > 0

\* C22 -- scheduler liveness: a pass that raises does not end the loop, and
\* after a pass that raised on one date the loop runs the pass of the next
\* date.
SchedulerLiveness ==
    /\ [](loop.alive)
    /\ \A d \in 0..(LoopDays - 1) :
          (today = d /\ last[1] = "reset_error")
              ~> (today = d + 1 /\ ticked /\ last[1] \in {"reset", "reset_error"})

\* the pass of the date ran, and committed, after the pass of the date before
\* had raised
PassAfterFailedPass ==
    /\ loop.alive
    /\ today > 0 /\ loop.failed_on = today - 1
    /\ ticked /\ last[1] = "reset"
    /\ \E a \in assignments : a.date = today /\ a.origin = "scheduler"

Settled == {"completed", "verified", "skipped"}

\* C23 -- history is never deleted: a row whose status is completed, verified
\* or skipped is still in the table after every step; a removal request for
\* such a row is answered 400 and changes nothing.
HistoryNeverDeleted ==
    [][/\ \A a \in assignments :
             a.status \in Settled => \E b \in assignments' : b.id = a.id
       /\ \A a \in assignments, af \in BOOLEAN :
             (a.status \in Settled /\ remove_assignment_request(a.id, af))
                => (last' = <<"rejected", 400, 1>>
                    /\ assignments' = assignments)]_vars

\* an earlier pending row of the kid was removed together with what
\* follows it, and the kid's later settled row is still there
SettledRowSurvived ==
    \E s \in removed, a \in assignments :
        /\ a.chore = s[1] /\ a.user = s[2] /\ a.date > s[3]
        /\ a.status \in Settled
        /\ ~\E b \in assignments :
              b.chore = s[1] /\ b.user = s[2] /\ b.status = "pending"

\* chore c has an occurrence today: one of its active rules fires, or,
\* without active rules, the chore's own recurrence does
FiresToday(c) ==
    IF _load_active_rules(c) # {}
    THEN \E u \in _load_active_rules(c) :
            /\ rules[c][u].recurrence # "once"
            /\ ResetShouldGenerate(rules[c][u].recurrence,
                                   rules[c][u].custom_days,
                                   chores[c].created_at, today)
    ELSE /\ chores[c].recurrence # "once"
         /\ ResetShouldGenerate(chores[c].recurrence, chores[c].custom_days,
                                chores[c].created_at, today)

\* C24 -- advance discipline: a daily pass moves a chore's rotation by at
\* most one member, and leaves the rotation row as it was when the chore has
\* no occurrence today.
AdvanceDiscipline ==
    [][daily_reset_pass =>
          \A c \in Chores :
              /\ rotation'[c] # rotation[c] => Advanced(c)
              /\ ~FiresToday(c) => rotation'[c] = rotation[c]]_vars

\* C25 -- shouldAdvance thresholds: the pass advances the rotation of a
\* chore it handles exactly when last_rotated is null or the whole days
\* since last_rotated are at least 1 (daily), 7 (weekly), 14 (fortnightly)
\* or 30 (monthly).
AdvanceThresholds ==
    [][daily_reset_task =>
          \A c \in Chores :
              ResetReachesRotation(c) =>
                  (Advanced(c) <=> should_advance_rotation(rotation[c], Now))]_vars

\* chore c fires every day for every member of its daily rotation
DailyRoundRobin(c) ==
    /\ chores[c].exists /\ chores[c].is_active
    /\ rotation[c].exists /\ rotation[c].cadence = "daily"
    /\ \A i \in DOMAIN rotation[c].kid_ids :
          LET u == rotation[c].kid_ids[i]
          IN /\ u \in Users
             /\ rules[c][u].exists /\ rules[c][u].is_active
             /\ rules[c][u].recurrence = "daily"

\* C26 -- round-robin progression: for a chore that fires every day under a
\* daily rotation, the pass of each date moves current_index on by exactly
\* one, whatever the time of the last stamp, and the member it arrives at
\* has an assignment for the date.
RoundRobinProgression ==
    [][daily_reset_task =>
          \A c \in DOMAIN chores :
              DailyRoundRobin(c) =>
                  /\ rotation'[c].current_index =
                        (rotation[c].current_index + 1) % Len(rotation[c].kid_ids)
                  /\ HasRow(assignments', c, CurrentKid(c)', today)]_vars

\* the persons a projection of the week containing today wants a row for
\* on today's date
ProjectedToday(c) ==
    {u \in Users :
        <<c, u, today>> \in
            _generate_from_rules(c, WeekDates(today - Weekday(today)))}

\* C27 -- shared firing logic: for a chore with active rules, no rotation and
\* no exclusions, the daily pass leaves a row on today's date for exactly the
\* persons who had one already and those the projection of the current week
\* wants one for, whatever the recurrence of their rules.
SharedFiringLogic ==
    [][(daily_reset_task /\ last'[1] = "reset") =>
          \A c \in _load_active_chores :
              (/\ _load_active_rules(c) # {}
               /\ ~rotation[c].exists
               /\ \A s \in exclusions : s[1] # c) =>
                  {u \in Users : HasRow(assignments', c, u, today)} =
                     {u \in Users : HasRow(assignments, c, u, today)}
                        \cup ProjectedToday(c)]_vars

\* the rows a step has added
NewRows == {a \in assignments' : a.id \notin {b.id : b \in assignments}}

\* C28 -- rules take precedence: when a chore has an active rule, every row
\* a projection or the daily pass adds for it is for a person with an active
\* rule, on a day that person's own rule fires; earlier assignees and
\* rotation members without a rule get none and the chore's own recurrence
\* decides nothing.
RulesTakePrecedence ==
    [][(daily_reset_task
        \/ \E ws \in WeekStarts : auto_generate_week_assignments(ws)) =>
          \A a \in NewRows :
              _load_active_rules(a.chore) # {} =>
                  /\ a.user \in _load_active_rules(a.chore)
                  /\ should_create_on_day(rules[a.chore][a.user].recurrence,
                                          a.date,
                                          Weekday(chores[a.chore].created_at),
                                          rules[a.chore][a.user].custom_days,
                                          chores[a.chore].created_at)]_vars

\* A one-time chore whose only rule, kid 1's, has put kid 1 on the schedule,
\* while kid 2, an earlier assignee and the rotation's current member, has
\* no rule and got nothing.
RuleHolderOnly ==
    /\ last[1] \in {"project", "reset"}
    /\ \E c \in Chores :
          /\ chores[c].recurrence = "once"
          /\ _load_active_rules(c) = {1}
          /\ 2 \in _get_legacy_user_ids(c)
          /\ rotation[c].exists /\ 2 \in SeqRange(rotation[c].kid_ids)
          /\ \E a \in assignments :
                a.chore = c /\ a.user = 1 /\ a.origin = "scheduler"
          /\ \A a \in assignments :
                (a.chore = c /\ a.user = 2) => a.origin # "scheduler"

\* assign_chore has taken person u off chore c: the rule is kept, inactive
Unassigned(c, u) == rules[c][u].exists /\ ~rules[c][u].is_active

\* C29 -- unassignment is durable: no projection and no daily pass adds a
\* row for a chore and a person whose rule assign_chore has deactivated,
\* also when the chore is left without any active rule.
UnassignmentDurable ==
    [][(daily_reset_task
        \/ \E ws \in WeekStarts : auto_generate_week_assignments(ws)) =>
          \A a \in NewRows : ~Unassigned(a.chore, a.user)]_vars

\* C30 -- once-rule deactivation: after a daily pass no active rule with
\* recurrence once is left whose chore and person already have an
\* assignment.
OnceRuleDeactivation ==
    [][(daily_reset_task /\ last'[1] = "reset") =>
          \A c \in Chores, u \in Users :
              (/\ rules'[c][u].exists /\ rules'[c][u].is_active
               /\ rules'[c][u].recurrence = "once") =>
                  \A a \in assignments' : ~(a.chore = c /\ a.user = u)]_vars

\* C31 -- per-task failure isolation: when the pass raises on one chore, the
\* assignments of every other active chore that fires today are created by
\* that pass all the same.
TaskFailureIsolation ==
    [][daily_reset_task =>
          \A c \in _load_active_chores :
              ~ResetTypeError(c) =>
                  \A s \in ResetSlots(c, ResetRotation(c)) :
                      HasRow(assignments', s[1], s[2], s[3])]_vars

\* C32 -- commit pass atomicity: a pass that fails leaves the assignments
\* and the rotations as they were, and a pass that succeeds has handled
\* every active chore: each rotation is as the pass leaves it and every
\* slot it wants has its row.
PassAtomicity ==
    [][daily_reset_task =>
          \/ /\ last'[1] = "reset_error"
             /\ assignments' = assignments
             /\ rotation' = rotation
          \/ /\ last'[1] = "reset"
             /\ \A c \in _load_active_chores :
                   /\ rotation'[c] = ResetRotation(c)
                   /\ \A s \in ResetSlots(c, ResetRotation(c)) :
                         HasRow(assignments', s[1], s[2], s[3])]_vars

\* a pass has failed on a date on which a chore it could have handled wanted
\* a row and a rotation advance, and neither was written
FailedPassLeftNothing ==
    /\ last[1] = "reset_error"
    /\ \E c \in _load_active_chores :
          /\ ~ResetTypeError(c)
          /\ ResetSlots(c, ResetRotation(c)) # {}
          /\ ResetRotation(c) # rotation[c]
          /\ \A a \in assignments : ~(a.chore = c /\ a.date = today)

\* whole weeks between two dates, counted from the earlier to the later
WholeWeeksBetween(d1, d2) ==
    (IF d2 >= d1 THEN d2 - d1 ELSE d1 - d2) \div WeekLen

\* C33 -- fortnightly evaluation: with the creation date the answer for a
\* fortnightly chore is true exactly when the target's weekday is the
\* creation weekday and the whole weeks between the two dates are even in
\* number, for targets before and after the creation date; without the date
\* it is true exactly when the weekday matches.
FortnightlyEvaluation ==
    \A c \in Chores :
        last[1] = "fires" =>
            LET target_day == last[2][1]
                anchor == last[2][2]
                same_weekday ==
                    Weekday(target_day) = Weekday(chores[c].created_at)
            IN last[3] = IF anchor = NoDate THEN same_weekday
                         ELSE /\ same_weekday
                              /\ WholeWeeksBetween(anchor, target_day) % 2 = 0

\* the evaluator has fired for a target two weeks before the creation date
FiresBeforeAnchor ==
    /\ last[1] = "fires"
    /\ last[2][2] # NoDate
    /\ last[2][1] + 2 * WeekLen = last[2][2]
    /\ last[3] = TRUE

\* C34 -- materialization soundness: every row that assign_chore, a
\* projection or the daily pass adds for a person who then has an active
\* rule with a recurrence other than once lies on a date on which that rule
\* fires under the evaluator given the chore's creation date.
MaterializationSound ==
    [][(\/ \E c \in Chores, items \in SoundBodies :
             assign_chore(c, items, NoRotationRequest)
        \/ \E ws \in WeekStarts : auto_generate_week_assignments(ws)
        \/ daily_reset_task) =>
          \A a \in NewRows :
              LET rule == rules'[a.chore][a.user]
              IN (rule.exists /\ rule.is_active /\ rule.recurrence # "once")
                    => should_create_on_day(rule.recurrence, a.date,
                                            Weekday(chores[a.chore].created_at),
                                            rule.custom_days,
                                            chores[a.chore].created_at)]_vars

\* the streak columns of a user
Streak(u) ==
    <<users[u].current_streak, users[u].longest_streak,
      users[u].last_streak_date>>

\* C35 -- streak fields are written only by verify: a step that changes a
\* user's current streak, longest streak or last streak date is a verify;
\* complete, uncomplete, skip, assign, update, point adjustment, the clock
\* and the daily pass leave them as they are.
StreakOnlyByVerify ==
    [][(\E u \in Users : Streak(u)' # Streak(u)) =>
          \E c \in Chores : verify_chore(c)]_vars

\* a verified assignment was undone again and the kid still has the streak
\* the verify set
StreakKeptAfterUncomplete ==
    /\ saga.stage = "undone"
    /\ saga.user \in Users
    /\ users[saga.user].current_streak = 1
    /\ users[saga.user].last_streak_date = today

\* C36 -- no double award: at most one chore_complete ledger entry refers to
\* any one assignment.
NoDoubleAward ==
    \A i, j \in DOMAIN ledger :
        (/\ ledger[i].type = "chore_complete"
         /\ ledger[j].type = "chore_complete"
         /\ ledger[i].reference_id = ledger[j].reference_id) => i = j

\* C37 -- multi-assignee lifecycle: a verify, uncomplete or skip of a chore
\* of which two or more kids have today's assignment in the status the
\* request needs is not refused and moves exactly one of those assignments.
MultiAssigneeLifecycle ==
    [][\A c \in Chores :
          (\/ post_verify(c) /\ Cardinality(CompletedToday(c)) >= 2
           \/ post_uncomplete(c) /\ Cardinality(DoneToday(c)) >= 2
           \/ post_skip(c) /\ Cardinality(OpenToday(c)) >= 2) =>
              /\ last'[1] # "rejected"
              /\ Cardinality(assignments \ assignments') = 1]_vars

\* C38 -- a trade transfers the slot: once an accepted trade has moved an
\* assignment to the accepting kid, no projection and no daily pass makes a
\* new assignment of the same chore and date for the kid who gave it away.
TradeTransfersSlot ==
    \A n \in trades, a \in assignments :
        (a.id = n.ref /\ a.user = n.to) =>
            ~\E b \in assignments :
                /\ b.chore = a.chore /\ b.date = a.date
                /\ b.user # a.user
                /\ b.id > a.id
                /\ b.origin = "scheduler"

\* the number of dates d with lo < d <= hi whose weekday is in the set
DatesIn(lo, hi, weekdays) ==
    Cardinality({d \in (lo + 1)..hi : Weekday(d) \in weekdays})

\* the rotation as it is after the reference day has moved on to new_day:
\* advanced by one iff new_day is an active weekday
AdvancedOnActiveDay(rot, new_day, weekdays) ==
    IF Weekday(new_day) \in weekdays THEN advance_rotation(rot, Now) ELSE rot

\* C39 -- occurrence counting: _count_occurrences(start, end, weekdays) is
\* the number of dates in (start, end] with an active weekday when end is
\* not before start, and minus the number of such dates in (end, start]
\* otherwise.  Consequently a read of a daily rotation for a fixed target,
\* with a weekday set, returns the same kid from the next reference day on
\* a rotation that advanced iff that next day is an active weekday.
OccurrenceCounting ==
    /\ last[1] = "count" =>
          LET start == last[2][1]
              end == last[2][2]
              weekdays == last[2][3]
          IN last[3] = IF end >= start THEN DatesIn(start, end, weekdays)
                       ELSE 0 - DatesIn(end, start, weekdays)
    /\ \A c \in Chores :
          (/\ last[1] = "kid_for_day"
           /\ last[2][2] # NoWeekdays
           /\ rotation[c].cadence = "daily") =>
              last[3] = get_rotation_kid_for_day(
                           AdvancedOnActiveDay(rotation[c], today + 1,
                                               last[2][2]),
                           last[2][1], today + 1, last[2][2])

\* a count backwards over more than a week has been taken
CountedBackwards ==
    /\ last[1] = "count"
    /\ last[2][2] + WeekLen < last[2][1]
    /\ last[2][3] = MonWedFri
    /\ last[3] < -3

====
